---- MODULE Spec2Model ----
(***************************************************************************)
(* Fleet CRM server: the users, companies, contacts, visits and            *)
(* sales_opportunities tables, the handlers that write them (createUser,   *)
(* createCompany, updateCompany, createContact, updateContact, createVisit,*)
(* createSalesOpportunity, updateSalesOpportunity), the input validation   *)
(* in front of them and the dashboard query (getDashboardData).            *)
(* Every handler is a sequence of awaited database statements; one action  *)
(* models one statement together with the synchronous code around it, so   *)
(* that calls of different requests interleave exactly at the awaits.      *)
(***************************************************************************)
EXTENDS Integers, Sequences, FiniteSets, TLC

\* ---- bounds ----
MaxClock == 1
MaxContacts == 2
MaxOpps == 1
MaxVisits == 1
\* the calendar: days of a month, instants of a day (the first is 00:00:00.000, the last
\* 23:59:59.999)
DaysPerMonth == 2
TicksPerDay == 3
\* rows of the tables the dashboard is computed from
MaxDashOpps == 2
MaxMonthVisits == 2
MaxRecentVisits == 6

\* ---- values ----
\* null of a nullable column / nullable input field (numbers and dates are >= 0)
NULL == -1
\* a field that is absent from the request (undefined); a present field is <<v>>
UNDEFINED == <<>>
Def(v) == <<v>>
Val(o) == o[1]
\* JavaScript truthiness of an optional nullable number: undefined, null and 0 are falsy;
\* the values of a nullable text column are numbered, 0 being the empty string
Truthy(o) == o # UNDEFINED /\ Val(o) # NULL /\ Val(o) # 0
\* x || null
OrNull(o) == IF Truthy(o) THEN Val(o) ELSE NULL

Procs == {1, 2}
\* ids of the rows of the companies table; 3 is an id with no row
StoredCompanies == {1, 2}
CompanyIdInputs == {1, 2, 3}
Names == {"a", "b"}
OptBool == {UNDEFINED, Def(TRUE), Def(FALSE)}
\* ids of the rows of the users table the runs start from; 9 has no row
StoredUsers == {1, 2}

VARIABLES
  users,          \* usersTable: sequence of rows, id = index (serial)
  companies,      \* companiesTable: sequence of rows, id = index (serial)
  contacts,       \* contactsTable: sequence of rows, id = index
  visits,         \* visitsTable: sequence of rows, id = index
  opportunities,  \* salesOpportunitiesTable: sequence of rows, id = index
  now,            \* the server clock read by new Date() and defaultNow()
  pc,             \* per request slot: the statement the running call issues next
  req             \* per request slot: handler, input, locals and result of the call

vars == <<users, companies, contacts, visits, opportunities, now, pc, req>>

NoReq == [op |-> "none"]
InFlight(p) == pc[p] \notin {"idle", "done", "failed"}

\* ---- usersTable ----
UserRowIds == 1..Len(users)
\* the users table the runs start from
InitUsers ==
  <<[email |-> "u1", name |-> "a", role |-> "BDM"],
    [email |-> "u2", name |-> "a", role |-> "BDM"]>>

\* ---- companiesTable ----
CompanyIds == 1..Len(companies)
\* the companies table the runs start from: company i is assigned to user i
InitCompanies ==
  <<[name |-> "a", fleet_size |-> NULL, annual_revenue |-> NULL,
     created_by |-> 1, assigned_bdm |-> 1, created_at |-> 0, updated_at |-> 0],
    [name |-> "a", fleet_size |-> NULL, annual_revenue |-> NULL,
     created_by |-> 1, assigned_bdm |-> 2, created_at |-> 0, updated_at |-> 0]>>

\* ---- contactsTable statements ----
ContactIds == 1..Len(contacts)
ContactsOf(cs, c) == {i \in 1..Len(cs) : cs[i].company_id = c}
Primaries(cs, c) == {i \in ContactsOf(cs, c) : cs[i].is_primary}

\* variant: the demotion statement left out
DemoteAllNone(cs, c) == cs

\* createContact: update(contactsTable).set({is_primary:false}).where(company_id = c)
DemoteAll(cs, c) ==
  [i \in 1..Len(cs) |->
     IF cs[i].company_id = c THEN [cs[i] EXCEPT !.is_primary = FALSE] ELSE cs[i]]

\* variant: the demotion statement left out
DemoteOthersNone(cs, c, id, t) == cs

\* variant: the company_id condition left out of the where clause
DemoteOthersAnyCompany(cs, c, id, t) ==
  [i \in 1..Len(cs) |->
     IF i # id THEN [cs[i] EXCEPT !.is_primary = FALSE, !.updated_at = t] ELSE cs[i]]

\* updateContact: update(contactsTable).set({is_primary:false, updated_at}).where(company_id = c and id <> id)
DemoteOthers(cs, c, id, t) ==
  [i \in 1..Len(cs) |->
     IF cs[i].company_id = c /\ i # id
       THEN [cs[i] EXCEPT !.is_primary = FALSE, !.updated_at = t]
       ELSE cs[i]]

\* variant: is_primary left to the column default
NewContactRowDefaultPrimary(input, t) ==
  [company_id |-> input.company_id, name |-> input.name, position |-> OrNull(input.position),
   is_primary |-> FALSE, created_at |-> t, updated_at |-> t]

\* createContact: the row inserted by insert(contactsTable).values({...})
NewContactRow(input, t) ==
  [company_id |-> input.company_id,
   name       |-> input.name,
   position   |-> OrNull(input.position),
   is_primary |-> IF input.is_primary = UNDEFINED THEN FALSE ELSE Val(input.is_primary),
   created_at |-> t, updated_at |-> t]

\* updateContact: updateData applied to the row by update(contactsTable).set(updateData)
UpdatedContactRow(row, input, t) ==
  [company_id |-> row.company_id,
   name       |-> IF input.name # UNDEFINED THEN Val(input.name) ELSE row.name,
   position   |-> IF input.position # UNDEFINED THEN Val(input.position) ELSE row.position,
   is_primary |-> IF input.is_primary # UNDEFINED THEN Val(input.is_primary) ELSE row.is_primary,
   created_at |-> row.created_at, updated_at |-> t]

\* variant: if (input.is_primary !== undefined)
AfterCheckDefined(input) == IF input.is_primary # UNDEFINED THEN "demote" ELSE "write"

\* variant: the target write issued without the demotion
AfterCheckNoDemote(input) == "write"

\* the branch taken after the existence check: demote first iff is_primary === true
AfterCheck(input) == IF input.is_primary = Def(TRUE) THEN "demote" ELSE "write"

\* ---- createContact ----
CreateContactInputs ==
  [company_id : CompanyIdInputs, name : Names, position : {UNDEFINED}, is_primary : OptBool]

PendingInserts == Cardinality({q \in Procs : InFlight(q) /\ req[q].op = "createContact"})

\* the call: select the company, throw when it has no row
CreateContactCall(p, input) ==
  /\ ~InFlight(p)
  /\ Len(contacts) + PendingInserts < MaxContacts
  /\ req' = [req EXCEPT ![p] = [op |-> "createContact", input |-> input,
                                company |-> input.company_id, target |-> 0,
                                stmts |-> <<"select">>]]
  /\ pc' = [pc EXCEPT ![p] = IF input.company_id \in CompanyIds
                               THEN AfterCheck(input) ELSE "failed"]
  /\ UNCHANGED <<users, companies, contacts, visits, opportunities, now>>

CreateContactDemote(p) ==
  /\ pc[p] = "demote" /\ req[p].op = "createContact"
  /\ contacts' = DemoteAll(contacts, req[p].input.company_id)
  /\ req' = [req EXCEPT ![p].stmts = Append(@, "demote")]
  /\ pc' = [pc EXCEPT ![p] = "write"]
  /\ UNCHANGED <<users, companies, visits, opportunities, now>>

CreateContactInsert(p) ==
  /\ pc[p] = "write" /\ req[p].op = "createContact"
  /\ contacts' = Append(contacts, NewContactRow(req[p].input, now))
  /\ req' = [req EXCEPT ![p].stmts = Append(@, "write"), ![p].target = Len(contacts) + 1]
  /\ pc' = [pc EXCEPT ![p] = "done"]
  /\ UNCHANGED <<users, companies, visits, opportunities, now>>

\* ---- updateContact ----
UpdateContactInputs ==
  [id : 1..MaxContacts, name : {UNDEFINED} \cup {Def(n) : n \in Names},
   position : {UNDEFINED}, is_primary : OptBool]

\* variant: the existence check left out
UpdateContactCallNoCheck(p, input) ==
  /\ ~InFlight(p)
  /\ req' = [req EXCEPT ![p] = [op |-> "updateContact", input |-> input,
                                company |-> IF input.id \in ContactIds
                                              THEN contacts[input.id].company_id ELSE 0,
                                target |-> input.id,
                                stmts |-> <<"select">>]]
  /\ pc' = [pc EXCEPT ![p] = AfterCheck(input)]
  /\ UNCHANGED <<users, companies, contacts, visits, opportunities, now>>

\* the call: select the contact, throw when it has no row, keep currentContact.company_id
UpdateContactCall(p, input) ==
  /\ ~InFlight(p)
  /\ req' = [req EXCEPT ![p] = [op |-> "updateContact", input |-> input,
                                company |-> IF input.id \in ContactIds
                                              THEN contacts[input.id].company_id ELSE 0,
                                target |-> input.id,
                                stmts |-> <<"select">>]]
  /\ pc' = [pc EXCEPT ![p] = IF input.id \in ContactIds THEN AfterCheck(input) ELSE "failed"]
  /\ UNCHANGED <<users, companies, contacts, visits, opportunities, now>>

UpdateContactDemote(p) ==
  /\ pc[p] = "demote" /\ req[p].op = "updateContact"
  /\ contacts' = DemoteOthers(contacts, req[p].company, req[p].input.id, now)
  /\ req' = [req EXCEPT ![p].stmts = Append(@, "demote")]
  /\ pc' = [pc EXCEPT ![p] = "write"]
  /\ UNCHANGED <<users, companies, visits, opportunities, now>>

UpdateContactWrite(p) ==
  /\ pc[p] = "write" /\ req[p].op = "updateContact"
  /\ contacts' = [contacts EXCEPT ![req[p].input.id] = UpdatedContactRow(@, req[p].input, now)]
  /\ req' = [req EXCEPT ![p].stmts = Append(@, "write")]
  /\ pc' = [pc EXCEPT ![p] = "done"]
  /\ UNCHANGED <<users, companies, visits, opportunities, now>>

\* ---- salesOpportunitiesTable ----
Stages == {"LEAD", "QUALIFIED", "PROPOSAL", "NEGOTIATION", "CLOSED_WON", "CLOSED_LOST"}
ClosedStages == {"CLOSED_WON", "CLOSED_LOST"}
OppIds == 1..Len(opportunities)

\* variant: a row created in a closed stage is stamped
NewOpportunityRowStamped(input, userId, t) ==
  [company_id |-> input.company_id, contact_id |-> OrNull(input.contact_id),
   user_id |-> userId,
   value |-> IF input.value # UNDEFINED /\ Val(input.value) # NULL THEN Val(input.value) ELSE NULL,
   probability |-> input.probability, stage |-> input.stage,
   actual_close_date |-> IF input.stage \in ClosedStages THEN t ELSE NULL,
   created_at |-> t, updated_at |-> t]

\* createSalesOpportunity: the row inserted by insert(salesOpportunitiesTable).values({...});
\* actual_close_date is not among the values and the column has no default
NewOpportunityRow(input, userId, t) ==
  [company_id        |-> input.company_id,
   contact_id        |-> OrNull(input.contact_id),
   user_id           |-> userId,
   value             |-> IF input.value # UNDEFINED /\ Val(input.value) # NULL
                           THEN Val(input.value) ELSE NULL,
   probability       |-> input.probability,
   stage             |-> input.stage,
   actual_close_date |-> NULL,
   created_at        |-> t, updated_at        |-> t]

\* variant: only CLOSED_WON stamps
CloseDateUpdateWonOnly(input, t) ==
  IF input.stage = Def("CLOSED_WON") /\ input.actual_close_date = UNDEFINED
    THEN Def(t) ELSE input.actual_close_date

\* variant: a closed stage stamps also over a supplied date
CloseDateUpdateOverride(input, t) ==
  IF input.stage # UNDEFINED /\ Val(input.stage) \in ClosedStages
    THEN Def(t) ELSE input.actual_close_date

\* variant: a stage that is not closed clears the date
CloseDateUpdateReopen(input, t) ==
  IF input.stage # UNDEFINED /\ input.actual_close_date = UNDEFINED
    THEN (IF Val(input.stage) \in ClosedStages THEN Def(t) ELSE Def(NULL))
    ELSE input.actual_close_date

\* updateSalesOpportunity: the actual_close_date entry of updateData, UNDEFINED when it has none
CloseDateUpdate(input, t) ==
  IF input.stage # UNDEFINED /\ Val(input.stage) \in ClosedStages
       /\ input.actual_close_date = UNDEFINED
    THEN Def(t)
    ELSE input.actual_close_date

\* variant: a probability that the request leaves out is written as 50
UpdatedOpportunityRowDefaults(row, input, t) ==
  [company_id        |-> row.company_id,
   contact_id        |-> row.contact_id,
   user_id           |-> row.user_id,
   value             |-> IF input.value # UNDEFINED THEN Val(input.value) ELSE row.value,
   probability       |-> IF Truthy(input.probability) THEN Val(input.probability) ELSE 50,
   stage             |-> IF input.stage # UNDEFINED THEN Val(input.stage) ELSE row.stage,
   actual_close_date |-> IF CloseDateUpdate(input, t) # UNDEFINED
                           THEN Val(CloseDateUpdate(input, t)) ELSE row.actual_close_date,
   created_at        |-> row.created_at, updated_at        |-> t]

\* updateSalesOpportunity: updateData applied to the row by update(...).set(updateData)
UpdatedOpportunityRow(row, input, t) ==
  [company_id        |-> row.company_id,
   contact_id        |-> row.contact_id,
   user_id           |-> row.user_id,
   value             |-> IF input.value # UNDEFINED THEN Val(input.value) ELSE row.value,
   probability       |-> IF input.probability # UNDEFINED THEN Val(input.probability)
                           ELSE row.probability,
   stage             |-> IF input.stage # UNDEFINED THEN Val(input.stage) ELSE row.stage,
   actual_close_date |-> IF CloseDateUpdate(input, t) # UNDEFINED
                           THEN Val(CloseDateUpdate(input, t)) ELSE row.actual_close_date,
   created_at        |-> row.created_at, updated_at        |-> t]

\* ---- createSalesOpportunity ----
\* the call: select the company, throw when it has no row
CreateSalesOpportunityCall(p, input, userId) ==
  /\ ~InFlight(p)
  /\ Len(opportunities) < MaxOpps
  /\ req' = [req EXCEPT ![p] = [op |-> "createSalesOpportunity", input |-> input,
                                userId |-> userId, target |-> 0, stmts |-> <<"select">>]]
  /\ pc' = [pc EXCEPT ![p] = IF input.company_id \notin CompanyIds THEN "failed"
                             ELSE IF Truthy(input.contact_id) THEN "contact" ELSE "write"]
  /\ UNCHANGED <<users, companies, contacts, visits, opportunities, now>>

\* select the contact with that id and that company, throw when there is none
CreateSalesOpportunityContact(p) ==
  /\ pc[p] = "contact" /\ req[p].op = "createSalesOpportunity"
  /\ req' = [req EXCEPT ![p].stmts = Append(@, "select")]
  /\ pc' = [pc EXCEPT ![p] =
              IF \E i \in ContactIds : i = Val(req[p].input.contact_id)
                                       /\ contacts[i].company_id = req[p].input.company_id
                THEN "write" ELSE "failed"]
  /\ UNCHANGED <<users, companies, contacts, visits, opportunities, now>>

CreateSalesOpportunityInsert(p) ==
  /\ pc[p] = "write" /\ req[p].op = "createSalesOpportunity"
  /\ opportunities' = Append(opportunities, NewOpportunityRow(req[p].input, req[p].userId, now))
  /\ req' = [req EXCEPT ![p].stmts = Append(@, "write"), ![p].target = Len(opportunities) + 1]
  /\ pc' = [pc EXCEPT ![p] = "done"]
  /\ UNCHANGED <<users, companies, contacts, visits, now>>

\* ---- updateSalesOpportunity ----
\* the call: select the opportunity, throw when it has no row
UpdateSalesOpportunityCall(p, input) ==
  /\ ~InFlight(p)
  /\ req' = [req EXCEPT ![p] = [op |-> "updateSalesOpportunity", input |-> input,
                                target |-> input.id, stmts |-> <<"select">>]]
  /\ pc' = [pc EXCEPT ![p] = IF input.id \in OppIds THEN "write" ELSE "failed"]
  /\ UNCHANGED <<users, companies, contacts, visits, opportunities, now>>

UpdateSalesOpportunityWrite(p) ==
  /\ pc[p] = "write" /\ req[p].op = "updateSalesOpportunity"
  /\ opportunities' = [opportunities EXCEPT ![req[p].input.id] =
                         UpdatedOpportunityRow(@, req[p].input, now)]
  /\ req' = [req EXCEPT ![p].stmts = Append(@, "write")]
  /\ pc' = [pc EXCEPT ![p] = "done"]
  /\ UNCHANGED <<users, companies, contacts, visits, now>>

\* ---- createVisit ----
\* variant: the company_id condition left out of the contact select
ContactFoundAnyCompany(cs, id, c) == id \in 1..Len(cs)

\* select().from(contactsTable).where(and(eq(id, contact_id), eq(company_id, company_id)))
\* returns a row
ContactFound(cs, id, c) == \E i \in 1..Len(cs) : i = id /\ cs[i].company_id = c

\* the row inserted by insert(visitsTable).values({...})
NewVisitRow(input, userId) ==
  [company_id |-> input.company_id,
   contact_id |-> OrNull(input.contact_id),
   user_id    |-> userId,
   visit_date |-> input.visit_date]

\* the call: select the company, throw when it has no row
CreateVisitCall(p, input, userId) ==
  /\ ~InFlight(p)
  /\ Len(visits) < MaxVisits
  /\ req' = [req EXCEPT ![p] = [op |-> "createVisit", input |-> input,
                                userId |-> userId, target |-> 0, stmts |-> <<"select">>]]
  /\ pc' = [pc EXCEPT ![p] = IF input.company_id \notin CompanyIds THEN "failed"
                             ELSE IF Truthy(input.contact_id) THEN "contact" ELSE "write"]
  /\ UNCHANGED <<users, companies, contacts, visits, opportunities, now>>

\* if (input.contact_id): select the contact of that company, throw when there is none
CreateVisitContact(p) ==
  /\ pc[p] = "contact" /\ req[p].op = "createVisit"
  /\ req' = [req EXCEPT ![p].stmts = Append(@, "select")]
  /\ pc' = [pc EXCEPT ![p] =
              IF ContactFound(contacts, Val(req[p].input.contact_id), req[p].input.company_id)
                THEN "write" ELSE "failed"]
  /\ UNCHANGED <<users, companies, contacts, visits, opportunities, now>>

CreateVisitInsert(p) ==
  /\ pc[p] = "write" /\ req[p].op = "createVisit"
  /\ visits' = Append(visits, NewVisitRow(req[p].input, req[p].userId))
  /\ req' = [req EXCEPT ![p].stmts = Append(@, "write"), ![p].target = Len(visits) + 1]
  /\ pc' = [pc EXCEPT ![p] = "done"]
  /\ UNCHANGED <<users, companies, contacts, opportunities, now>>

\* ---- updateCompany ----
\* input.annual_revenue?.toString() || null: the decimal string of a number is never
\* empty, so every number (0 included) is kept and null stays null
NumericOrNull(v) == IF v = NULL THEN NULL ELSE v

\* variant: fields taken over only when truthy, if (input.fleet_size)
UpdatedCompanyRowTruthy(row, input, t) ==
  [name           |-> IF input.name # UNDEFINED THEN Val(input.name) ELSE row.name,
   fleet_size     |-> IF Truthy(input.fleet_size) THEN Val(input.fleet_size)
                        ELSE row.fleet_size,
   annual_revenue |-> IF Truthy(input.annual_revenue)
                        THEN NumericOrNull(Val(input.annual_revenue)) ELSE row.annual_revenue,
   created_by     |-> row.created_by,
   assigned_bdm   |-> IF input.assigned_bdm # UNDEFINED THEN Val(input.assigned_bdm)
                        ELSE row.assigned_bdm,
   created_at     |-> row.created_at, updated_at     |-> t]

\* variant: the row written anew, created_at taking the time of the update
UpdatedCompanyRowRecreated(row, input, t) ==
  [name           |-> IF input.name # UNDEFINED THEN Val(input.name) ELSE row.name,
   fleet_size     |-> IF input.fleet_size # UNDEFINED THEN Val(input.fleet_size)
                        ELSE row.fleet_size,
   annual_revenue |-> IF input.annual_revenue # UNDEFINED
                        THEN NumericOrNull(Val(input.annual_revenue)) ELSE row.annual_revenue,
   created_by     |-> row.created_by,
   assigned_bdm   |-> IF input.assigned_bdm # UNDEFINED THEN Val(input.assigned_bdm)
                        ELSE row.assigned_bdm,
   created_at     |-> t,
   updated_at     |-> t]

\* updateCompany: updateValues applied to the row by update(companiesTable).set(updateValues)
UpdatedCompanyRow(row, input, t) ==
  [name           |-> IF input.name # UNDEFINED THEN Val(input.name) ELSE row.name,
   fleet_size     |-> IF input.fleet_size # UNDEFINED THEN Val(input.fleet_size)
                        ELSE row.fleet_size,
   annual_revenue |-> IF input.annual_revenue # UNDEFINED
                        THEN NumericOrNull(Val(input.annual_revenue)) ELSE row.annual_revenue,
   created_by     |-> row.created_by,
   assigned_bdm   |-> IF input.assigned_bdm # UNDEFINED THEN Val(input.assigned_bdm)
                        ELSE row.assigned_bdm,
   created_at     |-> row.created_at, updated_at     |-> t]

\* variant: the existence check left out
UpdateCompanyCallNoCheck(p, input) ==
  /\ ~InFlight(p)
  /\ req' = [req EXCEPT ![p] = [op |-> "updateCompany", input |-> input,
                                target |-> input.id, stmts |-> <<"select">>]]
  /\ pc' = [pc EXCEPT ![p] = "write"]
  /\ UNCHANGED <<users, companies, contacts, visits, opportunities, now>>

\* the call: select the company, throw when it has no row
UpdateCompanyCall(p, input) ==
  /\ ~InFlight(p)
  /\ req' = [req EXCEPT ![p] = [op |-> "updateCompany", input |-> input,
                                target |-> input.id, stmts |-> <<"select">>]]
  /\ pc' = [pc EXCEPT ![p] = IF input.id \in CompanyIds THEN "write" ELSE "failed"]
  /\ UNCHANGED <<users, companies, contacts, visits, opportunities, now>>

\* the update statement; the storage rejects it, leaving the table as it is, when the
\* new assigned_bdm references no user (foreign key companies.assigned_bdm -> users.id);
\* when no row has the id, result[0] is undefined and reading its annual_revenue throws
UpdateCompanyWrite(p) ==
  /\ pc[p] = "write" /\ req[p].op = "updateCompany"
  /\ req' = [req EXCEPT ![p].stmts = Append(@, "write")]
  /\ IF req[p].input.id \in CompanyIds
        /\ UpdatedCompanyRow(companies[req[p].input.id], req[p].input, now).assigned_bdm
             \in UserRowIds
       THEN /\ companies' = [companies EXCEPT ![req[p].input.id] =
                               UpdatedCompanyRow(@, req[p].input, now)]
            /\ pc' = [pc EXCEPT ![p] = "done"]
       ELSE /\ companies' = companies
            /\ pc' = [pc EXCEPT ![p] = "failed"]
  /\ UNCHANGED <<users, contacts, visits, opportunities, now>>

\* ---- getDashboardData ----
\* dates are instants counted from 1 January of year 0, 00:00:00.000
TicksPerMonth == DaysPerMonth * TicksPerDay
\* new Date(y, m, d, ...): month 12 is January of the next year and day 0 the last day
\* of the month before
MakeDate(y, m, d, tick) == ((y * 12 + m) * DaysPerMonth + (d - 1)) * TicksPerDay + tick
GetFullYear(t) == (t \div TicksPerMonth) \div 12
GetMonth(t) == (t \div TicksPerMonth) % 12

\* new Date(currentDate.getFullYear(), currentDate.getMonth(), 1)
StartOfMonth(currentDate) == MakeDate(GetFullYear(currentDate), GetMonth(currentDate), 1, 0)

\* variant: the last day of the month taken from a month of the same year
EndOfMonthSameYear(currentDate) ==
  MakeDate(GetFullYear(currentDate), (GetMonth(currentDate) + 1) % 12, 0, TicksPerDay - 1)

\* variant: the end of the month is the start of its last day
EndOfMonthMidnight(currentDate) ==
  MakeDate(GetFullYear(currentDate), GetMonth(currentDate) + 1, 0, 0)

\* new Date(currentDate.getFullYear(), currentDate.getMonth() + 1, 0, 23, 59, 59, 999)
EndOfMonth(currentDate) ==
  MakeDate(GetFullYear(currentDate), GetMonth(currentDate) + 1, 0, TicksPerDay - 1)

\* variant: no call is filtered
ScopedNever(userId, userRole) == FALSE

\* if (userRole === 'BDM' && userId): the three condition lists get their user filter
Scoped(userId, userRole) == userRole = Def("BDM") /\ Truthy(userId)

\* the rows selected by where(and(...companyConditions)) and its visit and opportunity
\* counterparts; without conditions every row
CompaniesInScope(userId, userRole) ==
  {i \in CompanyIds : Scoped(userId, userRole) => companies[i].assigned_bdm = Val(userId)}
VisitsInScope(userId, userRole) ==
  {i \in 1..Len(visits) : Scoped(userId, userRole) => visits[i].user_id = Val(userId)}
OpportunitiesInScope(userId, userRole) ==
  {i \in OppIds : Scoped(userId, userRole) => opportunities[i].user_id = Val(userId)}

\* gte(visit_date, startOfMonth), lte(visit_date, endOfMonth), ...visitConditions
MonthVisits(userId, userRole, startOfMonth, endOfMonth) ==
  {i \in VisitsInScope(userId, userRole) :
     visits[i].visit_date >= startOfMonth /\ visits[i].visit_date <= endOfMonth}

\* variant: only CLOSED_LOST is left out
ActiveOpportunitiesNotLost(userId, userRole) ==
  {i \in OpportunitiesInScope(userId, userRole) : opportunities[i].stage # "CLOSED_LOST"}

\* notInArray(stage, ['CLOSED_WON', 'CLOSED_LOST']), ...opportunityConditions
ActiveOpportunities(userId, userRole) ==
  {i \in OpportunitiesInScope(userId, userRole) :
     opportunities[i].stage \notin {"CLOSED_WON", "CLOSED_LOST"}}

RECURSIVE SumValues(_)
SumValues(S) ==
  IF S = {} THEN 0
  ELSE LET i == CHOOSE j \in S : TRUE IN opportunities[i].value + SumValues(S \ {i})
\* sum(salesOpportunitiesTable.value) over the rows S: null values are skipped and the
\* sum of no value is null
SqlSum(S) ==
  LET valued == {i \in S : opportunities[i].value # NULL}
  IN IF valued = {} THEN NULL ELSE SumValues(valued)
\* parseFloat(total || '0')
ParseTotal(total) == IF total = NULL THEN 0 ELSE total

\* the limit of the recent visits query
RecentLimit == 5
\* orderBy(desc(visit_date)).limit(k) over the rows S: the ids in the order returned;
\* the order among rows of equal visit_date is the storage's choice
\* variant: the oldest visits first
RECURSIVE OrderByDateAscLimit(_, _)
OrderByDateAscLimit(S, k) ==
  IF k = 0 \/ S = {} THEN {<<>>}
  ELSE UNION {{<<i>> \o rest : rest \in OrderByDateAscLimit(S \ {i}, k - 1)} :
                i \in {j \in S : \A h \in S : visits[h].visit_date >= visits[j].visit_date}}

RECURSIVE OrderByDateDescLimit(_, _)
OrderByDateDescLimit(S, k) ==
  IF k = 0 \/ S = {} THEN {<<>>}
  ELSE UNION {{<<i>> \o rest : rest \in OrderByDateDescLimit(S \ {i}, k - 1)} :
                i \in {j \in S : \A h \in S : visits[h].visit_date <= visits[j].visit_date}}
\* recentVisitsResult.map(visit => ({...visit, visit_date: new Date(visit.visit_date), ...}))
RecentVisitRows(ids) ==
  [n \in 1..Len(ids) |-> [id |-> ids[n], company_id |-> visits[ids[n]].company_id,
                           contact_id |-> visits[ids[n]].contact_id,
                           user_id |-> visits[ids[n]].user_id,
                           visit_date |-> visits[ids[n]].visit_date]]

\* variant: one row for every pipeline stage
GroupStagesAll(S) == Stages

\* groupBy(stage) over the rows S: the stages that have a group
GroupStages(S) == {opportunities[i].stage : i \in S}
\* the orders in which the storage may return the groups
GroupOrders(G) ==
  {o \in [1..Cardinality(G) -> G] : \A a, b \in 1..Cardinality(G) : a # b => o[a] # o[b]}
\* variant: count(value), which skips the rows without value
StageRowsCountValued(S, order) ==
  [n \in 1..Len(order) |->
     [stage |-> order[n],
      count |-> Cardinality({i \in S : opportunities[i].stage = order[n]
                                        /\ opportunities[i].value # NULL}),
      total_value |-> ParseTotal(SqlSum({i \in S : opportunities[i].stage = order[n]}))]]

\* opportunitiesByStageResult.map(item => ({stage, count, total_value: parseFloat(total_value || '0')}))
StageRows(S, order) ==
  [n \in 1..Len(order) |->
     [stage |-> order[n],
      count |-> Cardinality({i \in S : opportunities[i].stage = order[n]}),
      total_value |-> ParseTotal(SqlSum({i \in S : opportunities[i].stage = order[n]}))]]

\* the call: read the clock, build the condition lists, count the companies
GetDashboardDataCall(p, userId, userRole) ==
  /\ ~InFlight(p)
  /\ req' = [req EXCEPT ![p] =
               [op |-> "getDashboardData", userId |-> userId, userRole |-> userRole,
                startOfMonth |-> StartOfMonth(now), endOfMonth |-> EndOfMonth(now),
                stmts |-> <<"select">>,
                total_companies |-> Cardinality(CompaniesInScope(userId, userRole)),
                total_visits_this_month |-> 0, total_opportunities |-> 0,
                pipeline_value |-> 0, recent_visits |-> <<>>,
                opportunities_by_stage |-> <<>>]]
  /\ pc' = [pc EXCEPT ![p] = "monthVisits"]
  /\ UNCHANGED <<users, companies, contacts, visits, opportunities, now>>

\* 2. count the visits of this month
GetDashboardDataMonthVisits(p) ==
  /\ pc[p] = "monthVisits"
  /\ req' = [req EXCEPT ![p].stmts = Append(@, "select"),
                        ![p].total_visits_this_month =
                           Cardinality(MonthVisits(req[p].userId, req[p].userRole,
                                                   req[p].startOfMonth, req[p].endOfMonth))]
  /\ pc' = [pc EXCEPT ![p] = "activeOpportunities"]
  /\ UNCHANGED <<users, companies, contacts, visits, opportunities, now>>

\* 3. count the active opportunities
GetDashboardDataActiveOpportunities(p) ==
  /\ pc[p] = "activeOpportunities"
  /\ req' = [req EXCEPT ![p].stmts = Append(@, "select"),
                        ![p].total_opportunities =
                           Cardinality(ActiveOpportunities(req[p].userId, req[p].userRole))]
  /\ pc' = [pc EXCEPT ![p] = "pipelineValue"]
  /\ UNCHANGED <<users, companies, contacts, visits, opportunities, now>>

\* 4. sum the values of the active opportunities
GetDashboardDataPipelineValue(p) ==
  /\ pc[p] = "pipelineValue"
  /\ req' = [req EXCEPT ![p].stmts = Append(@, "select"),
                        ![p].pipeline_value =
                           ParseTotal(SqlSum(ActiveOpportunities(req[p].userId,
                                                                 req[p].userRole)))]
  /\ pc' = [pc EXCEPT ![p] = "recentVisits"]
  /\ UNCHANGED <<users, companies, contacts, visits, opportunities, now>>

\* 5. select the latest visits
GetDashboardDataRecentVisits(p) ==
  /\ pc[p] = "recentVisits"
  /\ \E ids \in OrderByDateDescLimit(VisitsInScope(req[p].userId, req[p].userRole),
                                      RecentLimit) :
       req' = [req EXCEPT ![p].stmts = Append(@, "select"),
                          ![p].recent_visits = RecentVisitRows(ids)]
  /\ pc' = [pc EXCEPT ![p] = "opportunitiesByStage"]
  /\ UNCHANGED <<users, companies, contacts, visits, opportunities, now>>

\* 6. group the opportunities by stage, and return
GetDashboardDataOpportunitiesByStage(p) ==
  /\ pc[p] = "opportunitiesByStage"
  /\ \E order \in GroupOrders(GroupStages(OpportunitiesInScope(req[p].userId,
                                                               req[p].userRole))) :
       req' = [req EXCEPT ![p].stmts = Append(@, "select"),
                          ![p].opportunities_by_stage =
                             StageRows(OpportunitiesInScope(req[p].userId, req[p].userRole),
                                       order)]
  /\ pc' = [pc EXCEPT ![p] = "done"]
  /\ UNCHANGED <<users, companies, contacts, visits, opportunities, now>>

GetDashboardDataStatement(p) ==
  \/ GetDashboardDataMonthVisits(p)
  \/ GetDashboardDataActiveOpportunities(p)
  \/ GetDashboardDataPipelineValue(p)
  \/ GetDashboardDataRecentVisits(p)
  \/ GetDashboardDataOpportunitiesByStage(p)

\* ---- the clock ----
Tick ==
  /\ now < MaxClock
  /\ now' = now + 1
  /\ UNCHANGED <<users, companies, contacts, visits, opportunities, pc, req>>

\* ---- specifications ----
ContactRows ==
  [company_id : StoredCompanies, name : Names, position : {NULL}, is_primary : BOOLEAN,
   created_at : {0}, updated_at : {0}]

InitProcs ==
  /\ pc = [p \in Procs |-> "idle"]
  /\ req = [p \in Procs |-> NoReq]

\* sequential execution of the contact handlers from any contacts table
InitSeq ==
  /\ users = InitUsers
  /\ companies = InitCompanies
  /\ visits = <<>>
  /\ contacts \in UNION {[1..n -> ContactRows] : n \in 0..MaxContacts}
  /\ opportunities = <<>>
  /\ now = 0
  /\ InitProcs

ContactStatement(p) ==
  \/ CreateContactDemote(p)
  \/ CreateContactInsert(p)
  \/ UpdateContactDemote(p)
  \/ UpdateContactWrite(p)

NextSeq ==
  \/ \E input \in CreateContactInputs : CreateContactCall(1, input)
  \/ \E input \in UpdateContactInputs : UpdateContactCall(1, input)
  \/ ContactStatement(1)
  \/ Tick

SpecSeq == InitSeq /\ [][NextSeq]_vars

\* two requests issuing primary-setting calls, from the empty contacts table: every
\* interleaving of their statements, their sequential execution included
InitConc ==
  /\ users = InitUsers
  /\ companies = InitCompanies
  /\ visits = <<>>
  /\ contacts = <<>>
  /\ opportunities = <<>>
  /\ now = 0
  /\ InitProcs

PrimarySetting(inputs) == {input \in inputs : input.is_primary = Def(TRUE)}

NextConc ==
  \E p \in Procs :
    \/ \E input \in PrimarySetting(CreateContactInputs) : CreateContactCall(p, input)
    \/ \E input \in PrimarySetting(UpdateContactInputs) : UpdateContactCall(p, input)
    \/ ContactStatement(p)

SpecConc == InitConc /\ [][NextConc]_vars

\* sequential execution of the sales-opportunity handlers; the contacts table holds one
\* contact of company 1, the clock stands at 1 and the dates a request supplies are earlier
InputDates == {0}
InputValues == {5}
UserIds == {1}
OptNullable(S) == {UNDEFINED, Def(NULL)} \cup {Def(v) : v \in S}

CreateSalesOpportunityInputs ==
  [company_id : CompanyIdInputs, contact_id : {UNDEFINED, Def(1)},
   value : {Def(v) : v \in InputValues}, probability : {50}, stage : Stages]

UpdateSalesOpportunityInputs ==
  [id : 1..MaxOpps, value : {UNDEFINED, Def(NULL)}, probability : {UNDEFINED},
   stage : {UNDEFINED} \cup {Def(st) : st \in Stages},
   actual_close_date : OptNullable(InputDates)]

InitOpp ==
  /\ users = InitUsers
  /\ companies = InitCompanies
  /\ visits = <<>>
  /\ contacts = <<[company_id |-> 1, name |-> "a", position |-> NULL, is_primary |-> TRUE,
                   created_at |-> 0, updated_at |-> 0]>>
  /\ opportunities = <<>>
  /\ now = 1
  /\ InitProcs

NextOpp ==
  \/ \E input \in CreateSalesOpportunityInputs, u \in UserIds :
       CreateSalesOpportunityCall(1, input, u)
  \/ CreateSalesOpportunityContact(1)
  \/ CreateSalesOpportunityInsert(1)
  \/ \E input \in UpdateSalesOpportunityInputs : UpdateSalesOpportunityCall(1, input)
  \/ UpdateSalesOpportunityWrite(1)

SpecOpp == InitOpp /\ [][NextOpp]_vars

\* a client sends one update request and then sends the same request again, the clock
\* running on; the tables hold two companies, two contacts of company 1 and one
\* opportunity, so that ids 3 (company, contact) and 2 (opportunity) have no row.
\* Stored values are 7, the values requests supply are 0 and 5, the clock stays below 5.
StoredValues == {NULL, 7}
UpdateCompanyInputs ==
  [id : {1, 3}, name : {UNDEFINED, Def("b")}, fleet_size : OptNullable({0}),
   annual_revenue : OptNullable({0}), assigned_bdm : {UNDEFINED, Def(2), Def(9)}]
UpdateContactRequests ==
  [id : {1, 3}, name : {UNDEFINED, Def("b")}, position : OptNullable({0}),
   is_primary : OptBool]
UpdateSalesOpportunityRequests ==
  [id : {1, 2}, value : OptNullable({0}), probability : {UNDEFINED, Def(0)},
   stage : {UNDEFINED, Def("LEAD"), Def("CLOSED_WON"), Def("CLOSED_LOST")},
   actual_close_date : OptNullable({5})]

InitUpd ==
  /\ users = InitUsers
  /\ \E v \in StoredValues :
       companies = <<[InitCompanies[1] EXCEPT !.fleet_size = v, !.annual_revenue = v],
                     InitCompanies[2]>>
  /\ \E v \in StoredValues :
       contacts = <<[company_id |-> 1, name |-> "a", position |-> v, is_primary |-> FALSE,
                     created_at |-> 0, updated_at |-> 0],
                    [company_id |-> 1, name |-> "b", position |-> NULL, is_primary |-> TRUE,
                     created_at |-> 0, updated_at |-> 0]>>
  /\ visits = <<>>
  /\ \E v \in StoredValues, st \in {"LEAD", "CLOSED_WON"} :
       opportunities = <<[company_id |-> 1, contact_id |-> NULL, user_id |-> 1, value |-> v,
                          probability |-> 50, stage |-> st,
                          actual_close_date |-> IF st \in ClosedStages THEN 0 ELSE NULL,
                          created_at |-> 0, updated_at |-> 0]>>
  /\ now = 0
  /\ InitProcs

\* no request has been sent yet
Fresh == \A p \in Procs : pc[p] = "idle"
\* the first request has been answered and the second has not been sent
Answered == pc[1] \in {"done", "failed"} /\ pc[2] = "idle"

UpdateStatement(p) ==
  \/ UpdateCompanyWrite(p)
  \/ UpdateContactDemote(p)
  \/ UpdateContactWrite(p)
  \/ UpdateSalesOpportunityWrite(p)

NextUpd ==
  \/ Fresh /\ \E input \in UpdateCompanyInputs : UpdateCompanyCall(1, input)
  \/ Fresh /\ \E input \in UpdateContactRequests : UpdateContactCall(1, input)
  \/ Fresh /\ \E input \in UpdateSalesOpportunityRequests : UpdateSalesOpportunityCall(1, input)
  \/ Answered /\ req[1].op = "updateCompany" /\ UpdateCompanyCall(2, req[1].input)
  \/ Answered /\ req[1].op = "updateContact" /\ UpdateContactCall(2, req[1].input)
  \/ Answered /\ req[1].op = "updateSalesOpportunity"
       /\ UpdateSalesOpportunityCall(2, req[1].input)
  \/ \E p \in Procs : UpdateStatement(p)
  \/ Tick

SpecUpd == InitUpd /\ [][NextUpd]_vars

\* requests that create contacts, visits and opportunities and update contacts and
\* opportunities, one after the other; the contacts table starts with one contact of
\* company 1, and a request names company 1, 2 or 3 (no row) and no contact, contact 0
\* or a contact id up to MaxContacts
ContactIdInputs == {UNDEFINED, Def(0)} \cup {Def(i) : i \in 1..MaxContacts}
CreateContactRequests ==
  [company_id : CompanyIdInputs, name : {"b"}, position : {UNDEFINED}, is_primary : {Def(TRUE)}]
CreateVisitInputs ==
  [company_id : CompanyIdInputs, contact_id : ContactIdInputs, visit_date : {0}]
CreateSalesOpportunityRequests ==
  [company_id : CompanyIdInputs, contact_id : ContactIdInputs, value : {Def(5)},
   probability : {50}, stage : {"LEAD"}]
RenameContactRequests ==
  [id : 1..MaxContacts, name : {Def("b")}, position : {UNDEFINED}, is_primary : {UNDEFINED}]
CloseOpportunityRequests ==
  [id : 1..MaxOpps, value : {UNDEFINED}, probability : {UNDEFINED},
   stage : {Def("CLOSED_WON")},
   actual_close_date : {UNDEFINED}]

InitRef ==
  /\ users = InitUsers
  /\ companies = InitCompanies
  /\ contacts = <<[company_id |-> 1, name |-> "a", position |-> NULL, is_primary |-> TRUE,
                   created_at |-> 0, updated_at |-> 0]>>
  /\ visits = <<>>
  /\ opportunities = <<>>
  /\ now = 0
  /\ InitProcs

NextRef ==
  \/ \E input \in CreateContactRequests : CreateContactCall(1, input)
  \/ CreateContactDemote(1)
  \/ CreateContactInsert(1)
  \/ \E input \in RenameContactRequests : UpdateContactCall(1, input)
  \/ UpdateContactWrite(1)
  \/ \E input \in CreateVisitInputs, u \in UserIds : CreateVisitCall(1, input, u)
  \/ CreateVisitContact(1)
  \/ CreateVisitInsert(1)
  \/ \E input \in CreateSalesOpportunityRequests, u \in UserIds :
       CreateSalesOpportunityCall(1, input, u)
  \/ CreateSalesOpportunityContact(1)
  \/ CreateSalesOpportunityInsert(1)
  \/ \E input \in CloseOpportunityRequests : UpdateSalesOpportunityCall(1, input)
  \/ UpdateSalesOpportunityWrite(1)

SpecRef == InitRef /\ [][NextRef]_vars

\* getDashboardData called over and over on tables that no request writes; the caller
\* passes any user id (absent and 0 included) and any role
DashUserIds == {UNDEFINED, Def(0)} \cup {Def(u) : u \in StoredUsers}
DashRoles == {UNDEFINED, Def("BDM"), Def("MANAGEMENT")}

NextDash ==
  \/ \E userId \in DashUserIds, userRole \in DashRoles :
       GetDashboardDataCall(1, userId, userRole)
  \/ GetDashboardDataStatement(1)

\* a day of June 2024 and the two visits, one per user, made on it
Today == MakeDate(2024, 5, 1, 1)
VisitRow(userId, visitDate) ==
  [company_id |-> userId, contact_id |-> NULL, user_id |-> userId, visit_date |-> visitDate]
TwoVisits == <<VisitRow(1, Today), VisitRow(2, Today)>>

\* the dashboard over any opportunities table of up to MaxDashOpps rows
DashOppRows ==
  [company_id : {1}, contact_id : {NULL}, user_id : StoredUsers, value : {NULL, 5},
   probability : {50}, stage : {"LEAD", "PROPOSAL", "CLOSED_WON"}, actual_close_date : {NULL},
   created_at : {0}, updated_at : {0}]

InitDashOpp ==
  /\ users = InitUsers
  /\ companies = InitCompanies
  /\ contacts = <<>>
  /\ visits = TwoVisits
  /\ opportunities \in UNION {[1..n -> DashOppRows] : n \in 0..MaxDashOpps}
  /\ now = Today
  /\ InitProcs

SpecDashOpp == InitDashOpp /\ [][NextDash]_vars

\* the dashboard in December, January and June over any visits table of up to
\* MaxMonthVisits rows whose dates are the last instant of the month before, the first
\* and the last instant of the month, and the first instant of the month after
CurrentDates == {MakeDate(2024, 11, 2, 1), MakeDate(2025, 0, 1, 0), Today}
FirstInstant(t) == (t \div TicksPerMonth) * TicksPerMonth
DatesAround(t) ==
  {FirstInstant(t) - 1, FirstInstant(t), FirstInstant(t) + TicksPerMonth - 1,
   FirstInstant(t) + TicksPerMonth}

InitDashMonth ==
  /\ users = InitUsers
  /\ companies = InitCompanies
  /\ contacts = <<>>
  /\ now \in CurrentDates
  /\ \E n \in 0..MaxMonthVisits :
       \E owners \in [1..n -> StoredUsers], dates \in [1..n -> DatesAround(now)] :
         visits = [i \in 1..n |-> VisitRow(owners[i], dates[i])]
  /\ opportunities = <<>>
  /\ InitProcs

SpecDashMonth == InitDashMonth /\ [][NextDash]_vars

\* the dashboard over any visits table of up to MaxRecentVisits rows: the first visit
\* is by any user and the later ones by user 1, each made today or a month ago
RecentDates == {Today - TicksPerMonth, Today}

InitDashRecent ==
  /\ users = InitUsers
  /\ companies = InitCompanies
  /\ contacts = <<>>
  /\ now = Today
  /\ \E n \in 0..MaxRecentVisits :
       \E u \in StoredUsers, dates \in [1..n -> RecentDates] :
         visits = [i \in 1..n |-> VisitRow(IF i = 1 THEN u ELSE 1, dates[i])]
  /\ opportunities = <<>>
  /\ InitProcs

SpecDashRecent == InitDashRecent /\ [][NextDash]_vars

\* ---- properties of the contact handlers ----
ContactOps == {"createContact", "updateContact"}
IsContactCall(p) == req[p].op \in ContactOps
SetsPrimary(p) == IsContactCall(p) /\ req[p].input.is_primary = Def(TRUE)
\* the statement p issues in this step is the write of its target row
TargetWrite(p) == pc[p] = "write" /\ pc'[p] = "done"
\* p takes this step
Steps(p) == pc'[p] # pc[p] \/ req'[p] # req[p]
AtMostOnePrimary == \A c \in CompanyIds : Cardinality(Primaries(contacts, c)) <= 1

\* C1: primary uniqueness.  Under sequential execution of createContact and
\* updateContact, every statement of a call takes a contacts table with at most one
\* primary contact per company to a table with at most one primary per company, so
\* from such a table every later table, after any sequence of calls, has the property.
C1_PrimaryUniqueness == [][AtMostOnePrimary => AtMostOnePrimary']_vars

\* a primary-setting call has completed in a company that holds another contact, and
\* the table has at most one primary per company
C1_Witness ==
  /\ pc[1] = "done" /\ SetsPrimary(1) /\ req[1].stmts = <<"select", "demote", "write">>
  /\ AtMostOnePrimary
  /\ contacts[req[1].target].is_primary
  /\ Cardinality(ContactsOf(contacts, req[1].company)) >= 2

\* C2: the race window of demote-then-write.  While two primary-setting calls on the
\* same company are both between their demotion and their target write, the company
\* has no primary contact other than (possibly) a target of these calls, so zero
\* primaries are visible when no target is primary; and when both writes have been
\* issued two primaries are visible (C2_Witness), never more than the number of
\* interleaved requests.
C2_RaceWindow ==
  /\ \A c \in CompanyIds : Cardinality(Primaries(contacts, c)) <= Cardinality(Procs)
  /\ \A p, q \in Procs :
       (p # q /\ pc[p] = "write" /\ pc[q] = "write" /\ SetsPrimary(p) /\ SetsPrimary(q)
          /\ req[p].company = req[q].company)
         => Primaries(contacts, req[p].company) \subseteq {req[p].target, req[q].target}

\* two interleaved primary-setting calls on one company have both demoted and both
\* written, and the company has two primary contacts
C2_Witness ==
  /\ pc[1] = "done" /\ pc[2] = "done" /\ SetsPrimary(1) /\ SetsPrimary(2)
  /\ req[1].stmts = <<"select", "demote", "write">>
  /\ req[2].stmts = <<"select", "demote", "write">>
  /\ req[1].company = req[2].company
  /\ Primaries(contacts, req[1].company) = {req[1].target, req[2].target}
  /\ req[1].target # req[2].target

\* the other half of the race: a company that has contacts shows no primary contact
\* while both calls are between demotion and target write
C2_ZeroVisible ==
  /\ pc[1] = "write" /\ pc[2] = "write" /\ SetsPrimary(1) /\ SetsPrimary(2)
  /\ req[1].company = req[2].company
  /\ ContactsOf(contacts, req[1].company) # {}
  /\ Primaries(contacts, req[1].company) = {}

\* C3: when the target write of a createContact or updateContact call with
\* is_primary = true is issued under sequential execution, the target contact is
\* primary and is the only primary contact of its company, whatever the flags were
\* when the call started.
C3_TargetIsOnlyPrimary ==
  [][\A p \in Procs :
       (TargetWrite(p) /\ SetsPrimary(p))
         => /\ contacts'[req'[p].target].is_primary
            /\ Primaries(contacts', contacts'[req'[p].target].company_id) = {req'[p].target}]_vars

\* an updateContact call with is_primary = true has completed on a company with a
\* second contact; its target is the only primary
C3_Witness ==
  /\ pc[1] = "done" /\ SetsPrimary(1) /\ req[1].op = "updateContact"
  /\ Cardinality(ContactsOf(contacts, req[1].company)) >= 2
  /\ Primaries(contacts, req[1].company) = {req[1].target}

\* a call with is_primary = true is about to demote in a company with several primaries
C3_SeveralPrimariesBefore ==
  /\ pc[1] = "demote" /\ SetsPrimary(1)
  /\ Cardinality(Primaries(contacts, req[1].company)) >= 2

\* C4: cross-company isolation.  No statement of a createContact or updateContact call
\* on company A changes any field of a contact whose company_id is another company,
\* under every interleaving of two primary-setting calls.
C4_CrossCompanyIsolation ==
  [][\A p \in Procs :
       (Steps(p) /\ req'[p].op \in ContactOps)
         => \A i \in 1..Len(contacts) :
              contacts[i].company_id # req'[p].company
                => (i <= Len(contacts') /\ contacts'[i] = contacts[i])]_vars

\* two primary-setting calls on two different companies are interleaved: both have
\* demoted, neither has written, and the primary of one company is still in place
C4_Witness ==
  \E p, q \in Procs :
    /\ p # q /\ pc[p] = "write" /\ pc[q] = "write" /\ SetsPrimary(p) /\ SetsPrimary(q)
    /\ req[p].stmts = <<"select", "demote">> /\ req[q].stmts = <<"select", "demote">>
    /\ req[p].company # req[q].company
    /\ Primaries(contacts, req[q].company) # {}

\* C5: no statement of a createContact or updateContact call whose is_primary is
\* false or absent changes a contact other than the target.
C5_NonPrimaryTouchesOnlyTarget ==
  [][\A p \in Procs :
       (Steps(p) /\ req'[p].op \in ContactOps /\ req'[p].input.is_primary # Def(TRUE))
         => \A i \in 1..Len(contacts) :
              i # req'[p].target => (i <= Len(contacts') /\ contacts'[i] = contacts[i])]_vars

\* an updateContact call with is_primary = false has completed and another contact of
\* the same company is still primary
C5_Witness ==
  /\ pc[1] = "done" /\ req[1].op = "updateContact" /\ req[1].input.is_primary = Def(FALSE)
  /\ \E i \in ContactsOf(contacts, req[1].company) : i # req[1].target /\ contacts[i].is_primary

\* C6: in every call of createContact or updateContact with is_primary = true the
\* statements are issued in the order existence check, demotion, target write: the
\* target write is never issued before the demotion.
C6_DemoteBeforeWrite ==
  \A p \in Procs :
    SetsPrimary(p) =>
      \/ pc[p] = "failed" /\ req[p].stmts = <<"select">>
      \/ pc[p] = "demote" /\ req[p].stmts = <<"select">>
      \/ pc[p] = "write" /\ req[p].stmts = <<"select", "demote">>
      \/ pc[p] = "done" /\ req[p].stmts = <<"select", "demote", "write">>

\* both handlers have run to completion with is_primary = true
C6_Witness ==
  /\ pc[1] = "done" /\ SetsPrimary(1) /\ req[1].op = "createContact"
  /\ pc[2] = "done" /\ SetsPrimary(2) /\ req[2].op = "updateContact"
  /\ req[1].stmts = <<"select", "demote", "write">>
  /\ req[2].stmts = <<"select", "demote", "write">>

\* ---- properties of the sales-opportunity handlers ----
IsOppUpdate(p) == req[p].op = "updateSalesOpportunity"
SetsClosedStage(p) ==
  IsOppUpdate(p) /\ req[p].input.stage # UNDEFINED /\ Val(req[p].input.stage) \in ClosedStages
SetsOpenStage(p) ==
  IsOppUpdate(p) /\ req[p].input.stage # UNDEFINED /\ Val(req[p].input.stage) \notin ClosedStages
SuppliesCloseDate(p) ==
  IsOppUpdate(p) /\ req[p].input.actual_close_date \notin {UNDEFINED, Def(NULL)}

\* C7: once an updateSalesOpportunity call that sets stage to CLOSED_WON or CLOSED_LOST
\* has completed, the opportunity's actual_close_date is not null, and it is the
\* current time when the request carried no actual_close_date; the one exception is a
\* request that supplied actual_close_date = null.
C7_ClosedStageHasCloseDate ==
  \A p \in Procs :
    (pc[p] = "done" /\ SetsClosedStage(p) /\ req[p].input.actual_close_date # Def(NULL))
      => /\ opportunities[req[p].target].actual_close_date # NULL
         /\ req[p].input.actual_close_date = UNDEFINED
              => opportunities[req[p].target].actual_close_date = now

\* an update to CLOSED_LOST without actual_close_date has completed and the row carries
\* the current time, which is none of the dates requests supply
C7_Witness ==
  /\ pc[1] = "done" /\ IsOppUpdate(1) /\ req[1].input.stage = Def("CLOSED_LOST")
  /\ req[1].input.actual_close_date = UNDEFINED
  /\ opportunities[req[1].target].stage = "CLOSED_LOST"
  /\ opportunities[req[1].target].actual_close_date = now
  /\ now \notin InputDates

\* C8: when an updateSalesOpportunity request carries a stage and an actual_close_date,
\* the stored actual_close_date after the call is the supplied value, for every stage.
C8_ExplicitCloseDateWins ==
  \A p \in Procs :
    (pc[p] = "done" /\ IsOppUpdate(p) /\ req[p].input.stage # UNDEFINED
       /\ req[p].input.actual_close_date # UNDEFINED)
      => opportunities[req[p].target].actual_close_date = Val(req[p].input.actual_close_date)

\* an update to CLOSED_WON with a supplied date has completed while the clock shows
\* another time, and the row carries the supplied date
C8_Witness ==
  /\ pc[1] = "done" /\ IsOppUpdate(1) /\ req[1].input.stage = Def("CLOSED_WON")
  /\ SuppliesCloseDate(1)
  /\ Val(req[1].input.actual_close_date) # now
  /\ opportunities[req[1].target].actual_close_date = Val(req[1].input.actual_close_date)

\* C9: the write of an updateSalesOpportunity call that sets stage to LEAD, QUALIFIED,
\* PROPOSAL or NEGOTIATION and carries no actual_close_date leaves the stored
\* actual_close_date as it was.
C9_OpenStageKeepsCloseDate ==
  [][\A p \in Procs :
       (TargetWrite(p) /\ SetsOpenStage(p) /\ req[p].input.actual_close_date = UNDEFINED)
         => opportunities'[req[p].target].actual_close_date
              = opportunities[req[p].target].actual_close_date]_vars

\* a closed opportunity has been moved back to an open stage and still carries its
\* close date
C9_Witness ==
  /\ pc[1] = "done" /\ SetsOpenStage(1) /\ req[1].input.actual_close_date = UNDEFINED
  /\ opportunities[req[1].target].stage \notin ClosedStages
  /\ opportunities[req[1].target].actual_close_date # NULL

UpdateOps == {"updateCompany", "updateContact", "updateSalesOpportunity"}
\* the table an update call writes, and the ids of its rows
TableOf(op) ==
  CASE op = "updateCompany" -> companies
    [] op = "updateContact" -> contacts
    [] op = "updateSalesOpportunity" -> opportunities
\* the request has the field and gives it a value or null
Supplies(input, f) == f \in DOMAIN input /\ input[f] # UNDEFINED
\* the request sets stage to a terminal stage
ClosesStage(input) ==
  Supplies(input, "stage") /\ Val(input.stage) \in ClosedStages
\* p issues in this step the write of its target row and the storage accepts it
UpdateWritten(p) == TargetWrite(p) /\ req[p].op \in UpdateOps

\* C11: partial update semantics.  In the target write of updateCompany, updateContact
\* and updateSalesOpportunity, every field of the target record that the request
\* supplies takes the supplied value (null for a supplied null), and every other field
\* keeps its stored value, except updated_at and, when the request sets a terminal
\* stage, actual_close_date.
C11_PartialUpdate ==
  [][\A p \in Procs :
       UpdateWritten(p) =>
         LET input == req[p].input
             before == TableOf(req[p].op)[req[p].target]
             after == TableOf(req[p].op)'[req[p].target]
         IN \A f \in DOMAIN before \ {"updated_at"} :
              IF Supplies(input, f) THEN after[f] = Val(input[f])
              ELSE IF f = "actual_close_date" /\ ClosesStage(input) THEN TRUE
              ELSE after[f] = before[f]]_vars

\* an updateCompany call that supplies a name and a null fleet_size and no
\* annual_revenue has completed on a company that had both numbers: the name is the
\* supplied one, fleet_size is null and annual_revenue is the stored number
C11_Witness ==
  /\ pc[1] = "done" /\ req[1].op = "updateCompany"
  /\ req[1].input.name = Def("b") /\ req[1].input.fleet_size = Def(NULL)
  /\ req[1].input.annual_revenue = UNDEFINED
  /\ companies[1].name = "b" /\ companies[1].fleet_size = NULL
  /\ companies[1].annual_revenue = 7

\* the request sets exactly one field
SingleField(input) == Cardinality({f \in DOMAIN input \ {"id"} : input[f] # UNDEFINED}) = 1
\* the second request, which repeats the first, writes its target row after the first
\* has completed
SecondWrite == UpdateWritten(2) /\ pc[1] = "done"

\* C12: partial update idempotence.  When an updateCompany, updateContact or
\* updateSalesOpportunity request that sets exactly one field (stage included) is
\* applied a second time right after it has been applied, with the same value, the
\* second write leaves the stored target record, updated_at excluded, as the first
\* application left it.
C12_PartialUpdateIdempotent ==
  [][(SecondWrite /\ SingleField(req[2].input)) =>
       LET before == TableOf(req[2].op)[req[2].target]
           after == TableOf(req[2].op)'[req[2].target]
       IN \A f \in DOMAIN before \ {"updated_at"} : after[f] = before[f]]_vars

\* the same for the requests that set a field other than a terminal stage
C12_IdempotentUnlessClosing ==
  [][(SecondWrite /\ SingleField(req[2].input) /\ ~ClosesStage(req[2].input)) =>
       LET before == TableOf(req[2].op)[req[2].target]
           after == TableOf(req[2].op)'[req[2].target]
       IN \A f \in DOMAIN before \ {"updated_at"} : after[f] = before[f]]_vars

\* a request that sets only stage = CLOSED_WON has been applied twice, the clock having
\* moved between the two writes: the close date is that of the second application
C12_Restamped ==
  /\ pc[1] = "done" /\ pc[2] = "done" /\ IsOppUpdate(2)
  /\ SingleField(req[2].input) /\ req[2].input.stage = Def("CLOSED_WON")
  /\ opportunities[1].actual_close_date = now /\ now > 0

\* the call of p threw after an existence check found no row, before any other statement
NotFound(p) == pc[p] = "failed" /\ req[p].stmts[Len(req[p].stmts)] = "select"
Tables == <<companies, contacts, visits, opportunities>>

\* C20: updateCompany, updateContact and updateSalesOpportunity called with an id that
\* has no row fail with the not-found error of their existence check, which is the only
\* statement they issue, and no step of such a call changes a table; so updateContact
\* with is_primary = true and a missing id demotes no contact.
C20_MissingIdFails ==
  [][\A p \in Procs :
       (Steps(p) /\ req'[p].op \in UpdateOps
          /\ req'[p].target \notin DOMAIN TableOf(req'[p].op))
         => /\ NotFound(p)' /\ req'[p].stmts = <<"select">>
            /\ Tables' = Tables]_vars

\* updateContact with is_primary = true and an id without a row has failed, and the
\* primary contact of the table is still primary
C20_Witness ==
  /\ pc[1] = "failed" /\ req[1].op = "updateContact" /\ req[1].input.is_primary = Def(TRUE)
  /\ req[1].target \notin ContactIds /\ req[1].stmts = <<"select">>
  /\ contacts[2].is_primary

\* ---- properties of the dashboard ----
\* a getDashboardData call has returned
DashDone(p) == pc[p] = "done" /\ req[p].op = "getDashboardData"
\* the caller is a user of the users table acting in one of the two roles
ValidCaller(p) ==
  /\ req[p].userId \in {Def(u) : u \in StoredUsers}
  /\ req[p].userRole \in {Def("BDM"), Def("MANAGEMENT")}
IsBdm(p) == req[p].userRole = Def("BDM")
\* the role scope: a BDM sees the rows of the own user id, MANAGEMENT every row
Sees(p, owner) == req[p].userRole = Def("MANAGEMENT") \/ owner = Val(req[p].userId)
ScopeCompanies(p) == {i \in CompanyIds : Sees(p, companies[i].assigned_bdm)}
ScopeVisits(p) == {i \in 1..Len(visits) : Sees(p, visits[i].user_id)}
ScopeOpps(p) == {i \in OppIds : Sees(p, opportunities[i].user_id)}
ScopeActive(p) == {i \in ScopeOpps(p) : opportunities[i].stage \notin ClosedStages}
ScopeInStage(p, st) == {i \in ScopeOpps(p) : opportunities[i].stage = st}
\* the sum of value over the opportunities S, null counted as 0
RECURSIVE SumNullAsZero(_)
SumNullAsZero(S) ==
  IF S = {} THEN 0
  ELSE LET i == CHOOSE j \in S : TRUE
       IN (IF opportunities[i].value = NULL THEN 0 ELSE opportunities[i].value)
            + SumNullAsZero(S \ {i})
RECURSIVE SumCounts(_, _)
SumCounts(rows, n) == IF n = 0 THEN 0 ELSE rows[n].count + SumCounts(rows, n - 1)
Min(a, b) == IF a <= b THEN a ELSE b
\* the calendar month of an instant
MonthOf(t) == t \div TicksPerMonth

C13_SumOfTwo ==
  /\ DashDone(1) /\ ValidCaller(1) /\ ~IsBdm(1)
  /\ req[1].total_opportunities = 2 /\ req[1].pipeline_value = 10
  /\ opportunities[1].user_id # opportunities[2].user_id

\* C14: role scoping.  For a BDM user U the company count is the number of companies
\* with assigned_bdm = U, every visit returned has user_id = U, and the visit count,
\* the opportunity count, the pipeline value and the rows by stage do not exceed what
\* the visits and opportunities with user_id = U give; for MANAGEMENT every company,
\* visit and opportunity of the tables is counted.
C14_RoleScoping ==
  \A p \in Procs :
    (DashDone(p) /\ ValidCaller(p)) =>
      LET U == Val(req[p].userId)
          byStage == req[p].opportunities_by_stage
          recent == req[p].recent_visits
      IN IF IsBdm(p)
           THEN /\ req[p].total_companies
                     = Cardinality({i \in CompanyIds : companies[i].assigned_bdm = U})
                /\ \A n \in 1..Len(recent) :
                     recent[n].user_id = U /\ visits[recent[n].id].user_id = U
                /\ req[p].total_visits_this_month
                     <= Cardinality({i \in 1..Len(visits) : visits[i].user_id = U})
                /\ req[p].total_opportunities
                     <= Cardinality({i \in OppIds : opportunities[i].user_id = U})
                /\ req[p].pipeline_value
                     <= SumNullAsZero({i \in OppIds : opportunities[i].user_id = U})
                /\ \A n \in 1..Len(byStage) :
                     byStage[n].count
                       <= Cardinality({i \in OppIds : /\ opportunities[i].user_id = U
                                                       /\ opportunities[i].stage
                                                            = byStage[n].stage})
           ELSE /\ req[p].total_companies = Len(companies)
                /\ Len(recent) = Min(RecentLimit, Len(visits))
                /\ req[p].total_visits_this_month
                     = Cardinality({i \in 1..Len(visits) :
                                      MonthOf(visits[i].visit_date) = MonthOf(now)})
                /\ req[p].total_opportunities
                     = Cardinality({i \in OppIds : opportunities[i].stage \notin ClosedStages})
                /\ SumCounts(byStage, Len(byStage)) = Len(opportunities)

\* a BDM call has returned one company, one visit and one opportunity from tables that
\* hold a company, a visit and an active opportunity of another user as well
C14_Witness ==
  /\ DashDone(1) /\ ValidCaller(1) /\ IsBdm(1)
  /\ req[1].total_companies = 1 /\ Len(companies) = 2
  /\ Len(req[1].recent_visits) = 1 /\ req[1].total_visits_this_month = 1 /\ Len(visits) = 2
  /\ req[1].total_opportunities = 1 /\ Len(req[1].opportunities_by_stage) = 1
  /\ \E i \in OppIds : /\ opportunities[i].user_id # Val(req[1].userId)
                        /\ opportunities[i].stage = "LEAD"

C16_RecentVisits ==
  \A p \in Procs :
    (DashDone(p) /\ ValidCaller(p)) =>
      LET recent == req[p].recent_visits
          ids == {recent[n].id : n \in 1..Len(recent)}
      IN /\ Len(recent) = Min(5, Cardinality(ScopeVisits(p)))
         /\ ids \subseteq ScopeVisits(p)
         /\ Cardinality(ids) = Len(recent)
         /\ \A n \in 1..Len(recent) :
              /\ recent[n].user_id = visits[recent[n].id].user_id
              /\ recent[n].visit_date = visits[recent[n].id].visit_date
         /\ \A m, n \in 1..Len(recent) :
              m < n => recent[m].visit_date >= recent[n].visit_date
         /\ \A i \in ScopeVisits(p) \ ids :
              \A n \in 1..Len(recent) : visits[i].visit_date <= recent[n].visit_date

\* a BDM call has returned five of the six own visits: those of today first, then
\* visits of last month, one visit of last month being left out
C16_Witness ==
  /\ DashDone(1) /\ ValidCaller(1) /\ IsBdm(1)
  /\ Cardinality(ScopeVisits(1)) = 6 /\ Len(req[1].recent_visits) = 5
  /\ req[1].recent_visits[1].visit_date = Today
  /\ req[1].recent_visits[5].visit_date = Today - TicksPerMonth
  /\ \E i \in ScopeVisits(1) :
       /\ i \notin {req[1].recent_visits[n].id : n \in 1..5}
       /\ visits[i].visit_date = Today - TicksPerMonth

\* C17: total_visits_this_month is the number of visits in the role scope whose
\* visit_date lies in the calendar month of the call, its first and its last instant
\* included; a visit of the month before or after is not counted, in December and in
\* January as in any other month.
C17_VisitsThisMonth ==
  \A p \in Procs :
    (DashDone(p) /\ ValidCaller(p))
      => req[p].total_visits_this_month
           = Cardinality({i \in ScopeVisits(p) : MonthOf(visits[i].visit_date) = MonthOf(now)})

\* in December a call has counted the visit made at the last instant of the month and
\* not the one made at the first instant of January
C17_Witness ==
  /\ DashDone(1) /\ ValidCaller(1) /\ GetMonth(now) = 11
  /\ Len(visits) = 2 /\ ScopeVisits(1) = {1, 2}
  /\ visits[1].visit_date = FirstInstant(now) + TicksPerMonth - 1
  /\ visits[2].visit_date = FirstInstant(now) + TicksPerMonth
  /\ GetMonth(visits[2].visit_date) = 0
  /\ req[1].total_visits_this_month = 1

\* in January a call has counted the visit made at the first instant of the month and
\* not the one made at the last instant of December
C17_January ==
  /\ DashDone(1) /\ ValidCaller(1) /\ GetMonth(now) = 0
  /\ Len(visits) = 2 /\ ScopeVisits(1) = {1, 2}
  /\ visits[1].visit_date = FirstInstant(now) - 1
  /\ visits[2].visit_date = FirstInstant(now)
  /\ req[1].total_visits_this_month = 1

\* ---- properties of the references to contacts ----
CreateOps == {"createContact", "createVisit", "createSalesOpportunity"}
\* a visit or opportunity row that has a contact has a contact of its own company
OwnContact(row) ==
  row.contact_id # NULL
    => row.contact_id \in ContactIds /\ contacts[row.contact_id].company_id = row.company_id

\* C18: after any sequence of create and update requests every stored visit and every
\* stored sales opportunity with a non-null contact_id references a contact whose
\* company_id is the row's own company_id.
C18_ContactOfSameCompany ==
  /\ \A i \in 1..Len(visits) : OwnContact(visits[i])
  /\ \A i \in OppIds : OwnContact(opportunities[i])

\* a visit and an opportunity with a contact are stored, and a contact of another
\* company exists that a request could have named
C18_Witness ==
  /\ \E i \in 1..Len(visits) : visits[i].contact_id # NULL
  /\ \E i \in OppIds : opportunities[i].contact_id # NULL
  /\ \E i, j \in ContactIds : contacts[i].company_id # contacts[j].company_id

\* the request names a contact: contact_id is a number
NamesContact(input) == input.contact_id # UNDEFINED /\ Val(input.contact_id) # NULL
\* the request of a create call names a company without a row, or a contact that has no
\* row or is a contact of another company
DanglingReference(r) ==
  \/ r.input.company_id \notin CompanyIds
  \/ /\ r.op \in {"createVisit", "createSalesOpportunity"}
     /\ NamesContact(r.input)
     /\ ~(\E i \in ContactIds : /\ i = Val(r.input.contact_id)
                                /\ contacts[i].company_id = r.input.company_id)

\* C19: a create call (createContact, createVisit, createSalesOpportunity) whose request
\* names a company without a row, or (createVisit, createSalesOpportunity) a contact
\* that has no row or belongs to another company, issues only its existence checks and
\* fails at one of them: no step of the call changes a table and the call never gets to
\* a demotion or an insert; for a missing company it fails at the first check.
C19_DanglingCreateFails ==
  [][\A p \in Procs :
       (Steps(p) /\ req'[p].op \in CreateOps /\ DanglingReference(req'[p]))
         => /\ Tables' = Tables
            /\ pc'[p] \in {"contact", "failed"}
            /\ pc'[p] = "failed" => NotFound(p)'
            /\ req'[p].input.company_id \notin CompanyIds
                 => pc'[p] = "failed" /\ req'[p].stmts = <<"select">>]_vars

\* the same for the requests whose contact id, if any, is not 0
C19_TruthyDanglingCreateFails ==
  [][\A p \in Procs :
       (Steps(p) /\ req'[p].op \in CreateOps /\ DanglingReference(req'[p])
          /\ (Supplies(req'[p].input, "contact_id") => req'[p].input.contact_id # Def(0)))
         => /\ Tables' = Tables
            /\ pc'[p] \in {"contact", "failed"}
            /\ pc'[p] = "failed" => NotFound(p)'
            /\ req'[p].input.company_id \notin CompanyIds
                 => pc'[p] = "failed" /\ req'[p].stmts = <<"select">>]_vars

\* createVisit with contact_id = 0 has completed and stored a visit without contact
C19_ZeroContactStored ==
  /\ pc[1] = "done" /\ req[1].op = "createVisit" /\ req[1].input.contact_id = Def(0)
  /\ req[1].stmts = <<"select", "write">>
  /\ visits[req[1].target].contact_id = NULL

\* createContact with is_primary = true and a company without a row has failed, and the
\* primary contact of the table is still primary
C19_NoDemotion ==
  /\ pc[1] = "failed" /\ req[1].op = "createContact" /\ req[1].input.is_primary = Def(TRUE)
  /\ req[1].input.company_id \notin CompanyIds
  /\ contacts[1].is_primary

\* ---- createUser ----
MaxUsers == 2
MaxCompanies == 2

\* the row inserted by insert(usersTable).values({email, name, role})
NewUserRow(input) == [email |-> input.email, name |-> input.name, role |-> input.role]

\* the call is one insert; the storage rejects a second row with an email that is
\* already stored (users.email is unique) and leaves the table as it is
CreateUserCall(p, input) ==
  /\ ~InFlight(p)
  /\ Len(users) < MaxUsers
  /\ req' = [req EXCEPT ![p] = [op |-> "createUser", input |-> input,
                                target |-> Len(users) + 1, stmts |-> <<"write">>]]
  /\ IF \E i \in UserRowIds : users[i].email = input.email
       THEN /\ users' = users
            /\ pc' = [pc EXCEPT ![p] = "failed"]
       ELSE /\ users' = Append(users, NewUserRow(input))
            /\ pc' = [pc EXCEPT ![p] = "done"]
  /\ UNCHANGED <<companies, contacts, visits, opportunities, now>>

\* ---- createCompany ----
\* the row inserted by insert(companiesTable).values({...}): fleet_size is
\* input.fleet_size || null, annual_revenue is kept unless undefined or null
NewCompanyRow(input, userId, t) ==
  [name           |-> input.name,
   fleet_size     |-> OrNull(input.fleet_size),
   annual_revenue |-> IF input.annual_revenue # UNDEFINED /\ Val(input.annual_revenue) # NULL
                        THEN NumericOrNull(Val(input.annual_revenue)) ELSE NULL,
   created_by     |-> userId,
   assigned_bdm   |-> input.assigned_bdm,
   created_at     |-> t,
   updated_at     |-> t]

\* variant: the insert without the foreign keys to users
CreateCompanyCallNoForeignKey(p, input, userId) ==
  /\ ~InFlight(p)
  /\ Len(companies) < MaxCompanies
  /\ req' = [req EXCEPT ![p] = [op |-> "createCompany", input |-> input, userId |-> userId,
                                target |-> Len(companies) + 1, stmts |-> <<"write">>]]
  /\ companies' = Append(companies, NewCompanyRow(input, userId, now))
  /\ pc' = [pc EXCEPT ![p] = "done"]
  /\ UNCHANGED <<users, contacts, visits, opportunities, now>>

\* the call is one insert; the storage rejects it, leaving the table as it is, when
\* created_by or assigned_bdm references no user (foreign keys companies -> users.id)
CreateCompanyCall(p, input, userId) ==
  /\ ~InFlight(p)
  /\ Len(companies) < MaxCompanies
  /\ req' = [req EXCEPT ![p] = [op |-> "createCompany", input |-> input, userId |-> userId,
                                target |-> Len(companies) + 1, stmts |-> <<"write">>]]
  /\ IF userId \in UserRowIds /\ input.assigned_bdm \in UserRowIds
       THEN /\ companies' = Append(companies, NewCompanyRow(input, userId, now))
            /\ pc' = [pc EXCEPT ![p] = "done"]
       ELSE /\ companies' = companies
            /\ pc' = [pc EXCEPT ![p] = "failed"]
  /\ UNCHANGED <<users, contacts, visits, opportunities, now>>

\* ---- the user and company handlers from empty tables ----
\* user 9 is never stored; the transport layer passes userId 1
Emails == {"u1", "u2"}
CreateUserInputs == [email : Emails, name : {"a"}, role : {"BDM"}]
AssignedInputs == {1, 2, 9}
CreateCompanyInputs ==
  [name : {"a"}, fleet_size : {UNDEFINED}, annual_revenue : {UNDEFINED},
   assigned_bdm : AssignedInputs]
ReassignCompanyInputs ==
  [id : {1, 3}, name : {UNDEFINED}, fleet_size : {UNDEFINED}, annual_revenue : {UNDEFINED},
   assigned_bdm : {UNDEFINED} \cup {Def(u) : u \in AssignedInputs}]

InitCompany ==
  /\ users = <<>>
  /\ companies = <<>>
  /\ contacts = <<>>
  /\ visits = <<>>
  /\ opportunities = <<>>
  /\ now = 0
  /\ InitProcs

NextCompany ==
  \/ \E p \in Procs, input \in CreateUserInputs : CreateUserCall(p, input)
  \/ \E p \in Procs, input \in CreateCompanyInputs : CreateCompanyCall(p, input, 1)
  \/ \E p \in Procs, input \in ReassignCompanyInputs : UpdateCompanyCall(p, input)
  \/ \E p \in Procs : UpdateCompanyWrite(p)

SpecCompany == InitCompany /\ [][NextCompany]_vars

\* the step in which slot p issues the insert or update statement of a company handler
CompanyWrite(p) ==
  /\ req'[p] # req[p]
  /\ req'[p].op \in {"createCompany", "updateCompany"}
  /\ pc'[p] \in {"done", "failed"}
  /\ req'[p].stmts[Len(req'[p].stmts)] = "write"
\* the statement names a user that has no row
NamesMissingUser(p) ==
  \/ req'[p].op = "createCompany"
       /\ (req'[p].input.assigned_bdm \notin UserRowIds \/ req'[p].userId \notin UserRowIds)
  \/ req'[p].op = "updateCompany"
       /\ req'[p].input.assigned_bdm # UNDEFINED
       /\ Val(req'[p].input.assigned_bdm) \notin UserRowIds

\* C21: after any sequence of createUser, createCompany and updateCompany calls every
\* stored company's assigned_bdm and created_by reference a stored user, and a
\* createCompany or updateCompany statement that names a user without a row fails and
\* leaves the companies table unchanged
C21_CompanyUsersExist ==
  /\ [](\A c \in CompanyIds :
          companies[c].assigned_bdm \in UserRowIds /\ companies[c].created_by \in UserRowIds)
  /\ [][\A p \in Procs :
          CompanyWrite(p) /\ NamesMissingUser(p)
            => pc'[p] = "failed" /\ companies' = companies]_vars

C21_Witness ==
  /\ pc[1] = "failed" /\ req[1].op = "updateCompany"
  /\ req[1].input.assigned_bdm = Def(9) /\ req[1].input.id = 1
  /\ Len(req[1].stmts) = 2
  /\ Len(users) = 2 /\ Len(companies) = 2
  /\ companies[1].assigned_bdm = 2
  /\ pc[2] = "failed" /\ req[2].op = "createCompany" /\ req[2].input.assigned_bdm = 9

\* ---- the validated remote-procedure surface ----
\* a number of a request is counted in halves, so that 101 stands for 50.5
Halves(n) == 2 * n
AtLeast(x, n) == x >= Halves(n)
AtMost(x, n) == x <= Halves(n)
IsInt(x) == x % 2 = 0
\* the integer that a request number without fractional part denotes
Whole(x) == x \div 2

\* variant: the upper limit left out
ValidProbabilityNoMax(x) == IsInt(x) /\ AtLeast(x, 0)
\* z.number().int().min(0).max(100)
ValidProbability(x) == IsInt(x) /\ AtLeast(x, 0) /\ AtMost(x, 100)

\* the request fails in .input(schema) before the mutation runs: no statement is issued
Rejected(p, op, raw) ==
  /\ ~InFlight(p)
  /\ req' = [req EXCEPT ![p] = [op |-> op, input |-> raw, target |-> 0, stmts |-> <<>>]]
  /\ pc' = [pc EXCEPT ![p] = "failed"]
  /\ UNCHANGED <<users, companies, contacts, visits, opportunities, now>>

\* appRouter.createSalesOpportunity: .input(createSalesOpportunityInputSchema), then the
\* handler with the parsed input and userId 1
RpcCreateSalesOpportunity(p, raw) ==
  IF ValidProbability(raw.probability)
    THEN CreateSalesOpportunityCall(p, [raw EXCEPT !.probability = Whole(@)], 1)
    ELSE Rejected(p, "createSalesOpportunity", raw)

\* appRouter.updateSalesOpportunity: .input(updateSalesOpportunityInputSchema), probability
\* optional, then the handler with the parsed input
RpcUpdateSalesOpportunity(p, raw) ==
  IF raw.probability = UNDEFINED \/ ValidProbability(Val(raw.probability))
    THEN UpdateSalesOpportunityCall(p,
           [raw EXCEPT !.probability = IF @ = UNDEFINED THEN @ ELSE Def(Whole(Val(@)))])
    ELSE Rejected(p, "updateSalesOpportunity", raw)

\* requests whose probability lies below, at, between and above the limits
RawProbabilities ==
  {Halves(-5), Halves(0), Halves(0) + 1, Halves(100), Halves(100) + 1, Halves(101)}
RawCreateSalesOpportunity ==
  [company_id : {1}, contact_id : {UNDEFINED}, value : {Def(5)},
   probability : RawProbabilities, stage : {"LEAD"}]
RawUpdateSalesOpportunity ==
  [id : 1..MaxOpps, value : {UNDEFINED},
   probability : {UNDEFINED} \cup {Def(x) : x \in RawProbabilities},
   stage : {UNDEFINED}, actual_close_date : {UNDEFINED}]

NextRpcOpp ==
  \/ \E p \in Procs, raw \in RawCreateSalesOpportunity : RpcCreateSalesOpportunity(p, raw)
  \/ \E p \in Procs : CreateSalesOpportunityInsert(p)
  \/ \E p \in Procs, raw \in RawUpdateSalesOpportunity : RpcUpdateSalesOpportunity(p, raw)
  \/ \E p \in Procs : UpdateSalesOpportunityWrite(p)

SpecRpcOpp == InitOpp /\ [][NextRpcOpp]_vars

OutOfRange(x) == ~(AtLeast(x, 0) /\ AtMost(x, 100))
\* the step rejects the request of slot p: no statement issued and no table changed
RejectedUntouched(p) ==
  /\ pc'[p] = "failed" /\ req'[p].stmts = <<>>
  /\ <<users, companies, contacts, visits, opportunities>>'
       = <<users, companies, contacts, visits, opportunities>>

\* C22: after any sequence of createSalesOpportunity and updateSalesOpportunity requests
\* made through the validated surface every stored opportunity has a probability in
\* [0,100], and a request whose probability lies outside that range is rejected before
\* any statement is issued and changes no table
C22_ProbabilityInRange ==
  /\ [](\A i \in OppIds : opportunities[i].probability \in 0..100)
  /\ [][\A p \in Procs :
          /\ \A raw \in RawCreateSalesOpportunity :
               OutOfRange(raw.probability) /\ RpcCreateSalesOpportunity(p, raw)
                 => RejectedUntouched(p)
          /\ \A raw \in RawUpdateSalesOpportunity :
               raw.probability # UNDEFINED /\ OutOfRange(Val(raw.probability))
                 /\ RpcUpdateSalesOpportunity(p, raw)
                 => RejectedUntouched(p)]_vars

C22_Witness ==
  /\ Len(opportunities) = 1 /\ opportunities[1].probability = 100
  /\ pc[1] = "failed" /\ req[1].op = "updateSalesOpportunity" /\ req[1].stmts = <<>>
  /\ req[1].input.probability = Def(Halves(101))
  /\ pc[2] = "done" /\ req[2].op = "updateSalesOpportunity"
  /\ req[2].input.probability = Def(100)

\* ---- createCompany and updateCompany behind the validated surface ----
\* fleet_size: z.number().int().nullable().optional(), without lower limit
ValidFleetSize(o) == o = UNDEFINED \/ Val(o) = NULL \/ IsInt(Val(o))
\* the value the schema hands to the handler
ParsedInt(o) == IF o = UNDEFINED \/ Val(o) = NULL THEN o ELSE Def(Whole(Val(o)))

\* appRouter.createCompany: .input(createCompanyInputSchema), then the handler with the
\* parsed input and userId 1
RpcCreateCompany(p, raw) ==
  IF ValidFleetSize(raw.fleet_size)
    THEN CreateCompanyCall(p, [raw EXCEPT !.fleet_size = ParsedInt(@)], 1)
    ELSE Rejected(p, "createCompany", raw)

\* appRouter.updateCompany: .input(updateCompanyInputSchema), then the handler
RpcUpdateCompany(p, raw) ==
  IF ValidFleetSize(raw.fleet_size)
    THEN UpdateCompanyCall(p, [raw EXCEPT !.fleet_size = ParsedInt(@)])
    ELSE Rejected(p, "updateCompany", raw)

\* fleet sizes -5, 0, 3 and 3.5, absent and null
RawFleetSizes == OptNullable({Halves(-5), Halves(0), Halves(3), Halves(3) + 1})
RawCreateCompany ==
  [name : {"a"}, fleet_size : RawFleetSizes, annual_revenue : OptNullable({0}),
   assigned_bdm : {1}]
RawUpdateCompany ==
  [id : {1, 3}, name : {UNDEFINED}, fleet_size : RawFleetSizes,
   annual_revenue : {UNDEFINED}, assigned_bdm : {UNDEFINED}]

InitRpcCompany ==
  /\ users = InitUsers
  /\ companies = <<>>
  /\ contacts = <<>>
  /\ visits = <<>>
  /\ opportunities = <<>>
  /\ now = 0
  /\ InitProcs

NextRpcCompany ==
  \/ \E raw \in RawCreateCompany : RpcCreateCompany(1, raw)
  \/ \E raw \in RawUpdateCompany : RpcUpdateCompany(1, raw)
  \/ UpdateCompanyWrite(1)

SpecRpcCompany == InitRpcCompany /\ [][NextRpcCompany]_vars

Negative(o) == o # UNDEFINED /\ Val(o) # NULL /\ Val(o) < 0

\* C23: after any sequence of createCompany and updateCompany requests made through the
\* validated surface every stored company's fleet_size is null or an integer >= 0, and
\* a request with a negative fleet_size is rejected before any statement is issued
C23_FleetSizeNonNegative ==
  /\ [](\A c \in CompanyIds :
          companies[c].fleet_size = NULL \/ companies[c].fleet_size >= 0)
  /\ [][/\ \A raw \in RawCreateCompany :
             Negative(raw.fleet_size) /\ RpcCreateCompany(1, raw) => RejectedUntouched(1)
        /\ \A raw \in RawUpdateCompany :
             Negative(raw.fleet_size) /\ RpcUpdateCompany(1, raw) => RejectedUntouched(1)]_vars

\* createCompany with fleet_size -5 has completed and the new row holds -5
C23_NegativeStored ==
  /\ pc[1] = "done" /\ req[1].op = "createCompany" /\ req[1].input.fleet_size = Def(-5)
  /\ companies[req[1].target].fleet_size = -5

\* a fleet_size with a fractional part is rejected and no statement is issued
C23_FractionRejected ==
  [][/\ \A raw \in RawCreateCompany :
          ~ValidFleetSize(raw.fleet_size) /\ RpcCreateCompany(1, raw) => RejectedUntouched(1)
     /\ \A raw \in RawUpdateCompany :
          ~ValidFleetSize(raw.fleet_size) /\ RpcUpdateCompany(1, raw) => RejectedUntouched(1)]_vars

\* the step in which createCompany of slot p inserts its row
CompanyInserted(p) ==
  /\ req'[p] # req[p] /\ req'[p].op = "createCompany" /\ pc'[p] = "done"
\* the stored value the request asks for: the value given, null when omitted
Given(o) == IF o = UNDEFINED THEN NULL ELSE Val(o)

\* C25: createCompany stores every supplied optional field with exactly the value given
\* and stores null only for a field that is omitted or null; a supplied fleet_size 0 and
\* a supplied annual_revenue 0 are stored as 0
C25_CreateCompanyStoresGiven ==
  [][CompanyInserted(1) =>
       /\ companies'[req'[1].target].fleet_size = Given(req'[1].input.fleet_size)
       /\ companies'[req'[1].target].annual_revenue = Given(req'[1].input.annual_revenue)]_vars

\* the same for annual_revenue alone, and for fleet_size when it is not 0
C25_StoresGivenUnlessZeroFleetSize ==
  [][CompanyInserted(1) =>
       /\ req'[1].input.fleet_size # Def(0)
            => companies'[req'[1].target].fleet_size = Given(req'[1].input.fleet_size)
       /\ companies'[req'[1].target].annual_revenue = Given(req'[1].input.annual_revenue)]_vars

\* createCompany with fleet_size 0 and annual_revenue 0 has stored null and 0
C25_ZeroFleetSizeDropped ==
  /\ pc[1] = "done" /\ req[1].op = "createCompany"
  /\ req[1].input.fleet_size = Def(0) /\ req[1].input.annual_revenue = Def(0)
  /\ companies[req[1].target].fleet_size = NULL
  /\ companies[req[1].target].annual_revenue = 0

\* ---- getDashboardData while another request writes opportunities ----
\* slot 1 runs the dashboard for user 1, slot 2 creates and updates opportunities of
\* user 1, every opportunity being created with the value 5
RaceCreateInputs ==
  [company_id : {1}, contact_id : {UNDEFINED}, value : {Def(5)}, probability : {50},
   stage : {"LEAD", "CLOSED_WON"}]
RaceUpdateInputs ==
  [id : 1..MaxOpps, value : {UNDEFINED, Def(NULL)}, probability : {UNDEFINED},
   stage : {UNDEFINED, Def("LEAD"), Def("CLOSED_WON")}, actual_close_date : {UNDEFINED}]

InitDashRace ==
  /\ users = InitUsers
  /\ companies = InitCompanies
  /\ contacts = <<>>
  /\ visits = TwoVisits
  /\ opportunities = <<>>
  /\ now = Today
  /\ InitProcs

NextDashRace ==
  \/ \E userRole \in {Def("BDM"), Def("MANAGEMENT")} : GetDashboardDataCall(1, Def(1), userRole)
  \/ GetDashboardDataStatement(1)
  \/ \E input \in RaceCreateInputs : CreateSalesOpportunityCall(2, input, 1)
  \/ CreateSalesOpportunityInsert(2)
  \/ \E input \in RaceUpdateInputs : UpdateSalesOpportunityCall(2, input)
  \/ UpdateSalesOpportunityWrite(2)

SpecDashRace == InitDashRace /\ [][NextDashRace]_vars

\* the projections of the opportunities tables the storage can hold in such a run
SnapshotTables ==
  UNION {[1..n -> [user_id : {1}, value : {NULL, 5}, stage : {"LEAD", "CLOSED_WON"}]] :
           n \in 0..MaxOpps}
RECURSIVE SumOf(_, _)
SumOf(T, S) ==
  IF S = {} THEN 0
  ELSE LET i == CHOOSE j \in S : TRUE
       IN (IF T[i].value = NULL THEN 0 ELSE T[i].value) + SumOf(T, S \ {i})
\* the opportunity fields of the result of slot p are those of the table T
SnapshotOf(p, T) ==
  LET active == {i \in DOMAIN T : T[i].stage \notin ClosedStages}
      byStage == req[p].opportunities_by_stage
  IN /\ req[p].total_opportunities = Cardinality(active)
     /\ req[p].pipeline_value = SumOf(T, active)
     /\ {byStage[n].stage : n \in 1..Len(byStage)} = {T[i].stage : i \in DOMAIN T}
     /\ \A n \in 1..Len(byStage) :
          LET S == {i \in DOMAIN T : T[i].stage = byStage[n].stage}
          IN byStage[n].count = Cardinality(S) /\ byStage[n].total_value = SumOf(T, S)

\* C24: the result of one getDashboardData call is a single snapshot, also when writes
\* of other requests are interleaved between its queries: there is one storage state of
\* which total_opportunities, pipeline_value and opportunities_by_stage are the count,
\* the sum and the groups
C24_SingleSnapshot == DashDone(1) => \E T \in SnapshotTables : SnapshotOf(1, T)

\* a call has returned no active opportunity and a pipeline value of 5
C24_TornResult ==
  /\ DashDone(1) /\ req[1].total_opportunities = 0 /\ req[1].pipeline_value = 5

\* a call during which no other request issued a statement returns a snapshot: the
\* call of slot 1 that finds slot 2 idle at its end, the table never written
C24_SnapshotWhenAlone ==
  (DashDone(1) /\ pc[2] = "idle") => \E T \in SnapshotTables : SnapshotOf(1, T)

\* ---- every create and update handler, one request after the other ----
\* the tables start with one company, its primary contact and no visit or opportunity,
\* created at time 0; the clock stands at 1
InitFrame ==
  /\ users = InitUsers
  /\ companies = <<InitCompanies[1]>>
  /\ contacts = <<[company_id |-> 1, name |-> "a", position |-> NULL, is_primary |-> TRUE,
                   created_at |-> 0, updated_at |-> 0]>>
  /\ visits = <<>>
  /\ opportunities = <<>>
  /\ now = 1
  /\ InitProcs

NextFrame ==
  \/ \E input \in [name : {"b"}, fleet_size : {UNDEFINED}, annual_revenue : {UNDEFINED},
                   assigned_bdm : {2}] : CreateCompanyCall(1, input, 1)
  \/ \E input \in [id : 1..MaxCompanies, name : {Def("b")}, fleet_size : {UNDEFINED},
                   annual_revenue : {UNDEFINED}, assigned_bdm : {Def(2)}] :
       UpdateCompanyCall(1, input)
  \/ UpdateCompanyWrite(1)
  \/ \E input \in [company_id : {1, 2}, name : {"b"}, position : {UNDEFINED},
                   is_primary : {Def(TRUE)}] : CreateContactCall(1, input)
  \/ CreateContactDemote(1)
  \/ CreateContactInsert(1)
  \/ \E input \in [id : 1..MaxContacts, name : {Def("b")}, position : {UNDEFINED},
                   is_primary : {UNDEFINED, Def(TRUE)}] : UpdateContactCall(1, input)
  \/ UpdateContactDemote(1)
  \/ UpdateContactWrite(1)
  \/ \E input \in [company_id : {1}, contact_id : {UNDEFINED, Def(1)}, visit_date : {0}] :
       CreateVisitCall(1, input, 1)
  \/ CreateVisitContact(1)
  \/ CreateVisitInsert(1)
  \/ \E input \in [company_id : {1}, contact_id : {UNDEFINED, Def(1)}, value : {Def(5)},
                   probability : {50}, stage : {"LEAD"}] :
       CreateSalesOpportunityCall(1, input, 1)
  \/ CreateSalesOpportunityContact(1)
  \/ CreateSalesOpportunityInsert(1)
  \/ \E input \in CloseOpportunityRequests : UpdateSalesOpportunityCall(1, input)
  \/ UpdateSalesOpportunityWrite(1)

SpecFrame == InitFrame /\ [][NextFrame]_vars

\* the rows of the table before the step are rows of the table after it, at the same
\* id and with the same values of the fields F
Keeps(before, after, F) ==
  /\ Len(after) >= Len(before)
  /\ \A i \in 1..Len(before) : \A f \in F : after[i][f] = before[i][f]

\* C26: no update changes a record's identity or ownership, and no update or create
\* removes a record: in every step every row stays in its table under its id, a company
\* keeps created_by and created_at, a contact company_id and created_at, an opportunity
\* company_id, contact_id, user_id and created_at, and a visit every field
C26_IdentityKept ==
  [][/\ Keeps(companies, companies', {"created_by", "created_at"})
     /\ Keeps(contacts, contacts', {"company_id", "created_at"})
     /\ Keeps(opportunities, opportunities',
              {"company_id", "contact_id", "user_id", "created_at"})
     /\ Keeps(visits, visits', {"company_id", "contact_id", "user_id", "visit_date"})
     /\ Keeps(users, users', {"email", "name", "role"})]_vars

\* updateSalesOpportunity has completed on an opportunity with a contact, after updates
\* at time 1 of the company and of the contact that were created at time 0
C26_Witness ==
  /\ pc[1] = "done" /\ req[1].op = "updateSalesOpportunity"
  /\ opportunities[1].user_id = 1
  /\ opportunities[1].contact_id = 1 /\ opportunities[1].stage = "CLOSED_WON"
  /\ companies[1].created_at = 0 /\ companies[1].updated_at = 1
  /\ companies[1].assigned_bdm = 2 /\ companies[1].created_by = 1
  /\ contacts[1].created_at = 0 /\ contacts[1].updated_at = 1 /\ contacts[1].name = "b"
  /\ Len(companies) = 2 /\ Len(contacts) = 2 /\ Len(visits) = 1

\* ---- the sales-opportunity handlers without requests that supply actual_close_date ----
NextClose ==
  \/ \E input \in CreateSalesOpportunityInputs : CreateSalesOpportunityCall(1, input, 1)
  \/ CreateSalesOpportunityContact(1)
  \/ CreateSalesOpportunityInsert(1)
  \/ \E input \in [id : 1..MaxOpps, value : {UNDEFINED, Def(NULL)}, probability : {UNDEFINED},
                   stage : {UNDEFINED} \cup {Def(st) : st \in Stages},
                   actual_close_date : {UNDEFINED}] : UpdateSalesOpportunityCall(1, input)
  \/ UpdateSalesOpportunityWrite(1)

SpecClose == InitOpp /\ [][NextClose]_vars

HasCloseDateIfClosed(row) == row.stage \in ClosedStages => row.actual_close_date # NULL

\* C27: after any sequence of createSalesOpportunity and updateSalesOpportunity calls of
\* which none supplies actual_close_date, every stored opportunity whose stage is
\* CLOSED_WON or CLOSED_LOST has a non-null actual_close_date, an opportunity created in
\* a terminal stage included
C27_ClosedHasCloseDate == \A i \in OppIds : HasCloseDateIfClosed(opportunities[i])

\* createSalesOpportunity with stage CLOSED_WON has stored a row without close date
C27_CreatedClosedWithoutDate ==
  /\ pc[1] = "done" /\ req[1].op = "createSalesOpportunity"
  /\ req[1].input.stage = "CLOSED_WON"
  /\ opportunities[req[1].target].stage = "CLOSED_WON"
  /\ opportunities[req[1].target].actual_close_date = NULL

\* no update takes a stored opportunity that has the property to one that lacks it
C27_UpdateKeepsCloseDate ==
  [][\A i \in OppIds :
       HasCloseDateIfClosed(opportunities[i]) => HasCloseDateIfClosed(opportunities'[i])]_vars

\* the row belongs to the caller of slot p, which an absent user id never does
Own(p, owner) == req[p].userId # UNDEFINED /\ owner = Val(req[p].userId)
OwnOpps(p) == {i \in OppIds : Own(p, opportunities[i].user_id)}

\* C28: getDashboardData yields the unrestricted view only for userRole MANAGEMENT: for
\* every other or absent role and any user id, absent and 0 included, no company
\* assigned to another user and no visit or opportunity owned by another user
\* contributes to a returned field
C28_GlobalViewOnlyForManagement ==
  \A p \in Procs :
    (DashDone(p) /\ req[p].userRole # Def("MANAGEMENT")) =>
      LET active == {i \in OwnOpps(p) : opportunities[i].stage \notin ClosedStages}
          byStage == req[p].opportunities_by_stage
          recent == req[p].recent_visits
      IN /\ req[p].total_companies
              = Cardinality({i \in CompanyIds : Own(p, companies[i].assigned_bdm)})
         /\ req[p].total_visits_this_month
              = Cardinality({i \in 1..Len(visits) :
                               Own(p, visits[i].user_id)
                                 /\ MonthOf(visits[i].visit_date) = MonthOf(now)})
         /\ req[p].total_opportunities = Cardinality(active)
         /\ req[p].pipeline_value = SumNullAsZero(active)
         /\ \A n \in 1..Len(recent) : Own(p, visits[recent[n].id].user_id)
         /\ \A n \in 1..Len(byStage) :
              byStage[n].count
                = Cardinality({i \in OwnOpps(p) : opportunities[i].stage = byStage[n].stage})

\* a call with role BDM and user id 0 has counted the companies and the visits of both
\* users and the opportunity of user 2
C28_BdmWithoutIdSeesAll ==
  /\ DashDone(1) /\ req[1].userRole = Def("BDM") /\ req[1].userId = Def(0)
  /\ req[1].total_companies = 2 /\ req[1].total_visits_this_month = 2
  /\ Len(opportunities) = 1 /\ opportunities[1].user_id = 2
  /\ opportunities[1].stage = "LEAD" /\ opportunities[1].value = 5
  /\ req[1].total_opportunities = 1 /\ req[1].pipeline_value = 5

\* a call without role has done the same for user 1
C28_NoRoleSeesAll ==
  /\ DashDone(1) /\ req[1].userRole = UNDEFINED /\ req[1].userId = Def(1)
  /\ req[1].total_companies = 2
  /\ Len(opportunities) = 1 /\ opportunities[1].user_id = 2
  /\ opportunities[1].stage = "LEAD" /\ req[1].total_opportunities = 1

\* the claim holds for the calls with role BDM and the id of a stored user
C28_BdmWithIdRestricted ==
  \A p \in Procs :
    (DashDone(p) /\ req[p].userRole = Def("BDM") /\ Truthy(req[p].userId)) =>
      /\ req[p].total_companies
           = Cardinality({i \in CompanyIds : Own(p, companies[i].assigned_bdm)})
      /\ req[p].total_opportunities
           = Cardinality({i \in OwnOpps(p) : opportunities[i].stage \notin ClosedStages})
      /\ \A n \in 1..Len(req[p].recent_visits) :
           Own(p, visits[req[p].recent_visits[n].id].user_id)

\* the sum of the field f over the first n rows whose stage is not a terminal stage
RECURSIVE SumOpenRows(_, _, _)
SumOpenRows(rows, n, f) ==
  IF n = 0 THEN 0
  ELSE (IF rows[n].stage \in ClosedStages THEN 0 ELSE rows[n][f]) + SumOpenRows(rows, n - 1, f)

RaceRow(v, pr) ==
  [company_id |-> 1, contact_id |-> NULL, user_id |-> 1, value |-> v, probability |-> pr,
   stage |-> "CLOSED_WON", actual_close_date |-> 0, created_at |-> 0, updated_at |-> 0]

InitOppRace ==
  /\ users = InitUsers
  /\ companies = InitCompanies
  /\ contacts = <<>>
  /\ visits = <<>>
  /\ \E v \in StoredValues, pr \in {0, 50} : opportunities = <<RaceRow(v, pr)>>
  /\ now = 0
  /\ InitProcs

NextOppRace ==
  \/ \E input \in [id : {1}, value : OptNullable({0, 5}) \ {UNDEFINED},
                   probability : {UNDEFINED}, stage : {UNDEFINED},
                   actual_close_date : {UNDEFINED}] :
       pc[1] = "idle" /\ UpdateSalesOpportunityCall(1, input)
  \/ \E input \in [id : {1}, value : {UNDEFINED}, probability : {Def(0), Def(100)},
                   stage : {UNDEFINED}, actual_close_date : {UNDEFINED}] :
       pc[2] = "idle" /\ UpdateSalesOpportunityCall(2, input)
  \/ \E p \in Procs : UpdateSalesOpportunityWrite(p)
  \/ Tick

SpecOppRace == InitOppRace /\ [][NextOppRace]_vars

\* the record left by the call with input a followed by the call with input b
OneAfterTheOther(a, b) ==
  UpdatedOpportunityRow(UpdatedOpportunityRow(RaceRow(NULL, 50), a, now), b, now)

\* C30: two updateSalesOpportunity calls on the same opportunity that set disjoint
\* fields, neither stage nor actual_close_date, lose no update: under every interleaving
\* of their selects and writes the stored record, updated_at excluded, carries the
\* changes of both and is the record left by running them one after the other, in
\* either order
C30_NoLostUpdate ==
  (pc[1] = "done" /\ pc[2] = "done") =>
     /\ opportunities[1].value = Val(req[1].input.value)
     /\ opportunities[1].probability = Val(req[2].input.probability)
     /\ \A f \in DOMAIN opportunities[1] \ {"updated_at"} :
          /\ opportunities[1][f] = OneAfterTheOther(req[1].input, req[2].input)[f]
          /\ opportunities[1][f] = OneAfterTheOther(req[2].input, req[1].input)[f]

\* both calls had passed their select before either wrote, and the record holds the
\* value 0 of the one and the probability 100 of the other
C30_Witness ==
  /\ pc[1] = "done" /\ pc[2] = "done"
  /\ req[1].stmts = <<"select", "write">> /\ req[2].stmts = <<"select", "write">>
  /\ req[1].input.value = Def(0) /\ req[2].input.probability = Def(100)
  /\ opportunities[1].value = 0 /\ opportunities[1].probability = 100
  /\ opportunities[1].stage = "CLOSED_WON" /\ opportunities[1].actual_close_date = 0

\* both calls are between their select and their write
C30_BothSelected == pc[1] = "write" /\ pc[2] = "write"

====
